---- MODULE Spec2Model ----
(***************************************************************************)
(* ort_to_rat: ORSO .ort  ->  RAT MATLAB model function + driver script.   *)
(*                                                                         *)
(* Text is modelled as sequences of one-character strings, numbers as      *)
(* integers in a fixed unit per quantity (see the section on numbers).     *)
(***************************************************************************)
EXTENDS Integers, Sequences, FiniteSets, TLC

VARIABLES
    pcT,        \* position of the caller of extract_bilayers_from_model
    tokens_in,  \* the tokens the input stack was written from (input record)
    stack_in,   \* model.stack as it was before the call
    model,      \* the model object: [stack |-> text]
    bilayers,   \* the list extract_bilayers_from_model returned
    HAS_MOLGROUPS,  \* the import of numpy and molgroups.lipids succeeded
    lipids,     \* molgroups.lipids: lipid name -> lipid object
    pcL,        \* position of the caller of get_lipid_constants
    lipid_name, \* its argument
    consts,     \* what it returned
    pc,         \* position of main / process_orso_file
    orso_data,  \* load_orso(...): the datasets, one per contrast
    done,       \* datasets the loop of process_orso_file has been through
    layers_all, bulk_ins, bulk_outs, contrast_names,  \* its four lists
    bilayer_specs_raw,  \* None, or the tokens of the first dataset with some
    bilayer_specs,      \* build_bilayer_specs(bilayer_specs_raw)
    resolver_calls,     \* calls of get_lipid_constants made so far
    err,        \* the exception that ended the run, "" for none
    model_code, \* emit_matlab_model(...): the generated function
    driver_code,\* emit_matlab_driver(...): the generated script
    run         \* one evaluation of the generated function

varsT == <<pcT, tokens_in, stack_in, model, bilayers>>
varsL == <<pcL, lipid_name, consts>>
varsLib == <<HAS_MOLGROUPS, lipids>>
varsX == <<orso_data, done, layers_all, bulk_ins, bulk_outs, contrast_names,
           bilayer_specs_raw>>
varsB == <<bilayer_specs, resolver_calls>>
varsP == <<pc, err, varsX, varsB>>
varsE == <<model_code, driver_code, run>>

vars == <<varsT, varsL, varsLib, varsP, varsE>>

(***************************************************************************)
(* Text                                                                    *)
(***************************************************************************)
Lower == {"a","b","c","d","e","f","g","h","i","j","k","l","m",
          "n","o","p","q","r","s","t","u","v","w","x","y","z"}
Upper == {"A","B","C","D","E","F","G","H","I","J","K","L","M",
          "N","O","P","Q","R","S","T","U","V","W","X","Y","Z"}
Digit == {"0","1","2","3","4","5","6","7","8","9"}

\* \s of the pattern, and what str.strip() removes
IsSpace(c) == c \in {" ", "\t", "\n", "\r"}
\* [A-Za-z0-9_]
IsIdChar(c) == c \in Lower \cup Upper \cup Digit \cup {"_"}

\* first position of character c in s, 0 when absent
IndexOf(s, c) ==
    IF \E k \in 1..Len(s) : s[k] = c
    THEN CHOOSE k \in 1..Len(s) : s[k] = c /\ \A m \in 1..(k-1) : s[m] # c
    ELSE 0

\* str.split(sep) for a one-character separator
RECURSIVE split(_, _)
split(s, sep) ==
    LET k == IndexOf(s, sep)
    IN  IF k = 0 THEN <<s>>
        ELSE <<SubSeq(s, 1, k-1)>> \o split(SubSeq(s, k+1, Len(s)), sep)

RECURSIVE lstrip(_)
lstrip(s) == IF s # <<>> /\ IsSpace(Head(s)) THEN lstrip(Tail(s)) ELSE s

RECURSIVE rstrip(_)
rstrip(s) ==
    IF s # <<>> /\ IsSpace(s[Len(s)]) THEN rstrip(SubSeq(s, 1, Len(s)-1)) ELSE s

\* str.strip()
strip(s) == rstrip(lstrip(s))

\* sep.join(parts)
RECURSIVE join(_, _)
join(sep, parts) ==
    IF parts = <<>> THEN <<>>
    ELSE IF Len(parts) = 1 THEN parts[1]
    ELSE parts[1] \o sep \o join(sep, Tail(parts))

(***************************************************************************)
(* RE_BILAYER                                                              *)
(*   ^bilayer\s*\(\s*inner\s*=\s*([A-Za-z0-9_]+)\s*,\s*outer\s*=\s*        *)
(*    ([A-Za-z0-9_]+)\s*\)\s*$                                             *)
(* Every piece is followed by a character outside its own class, so the    *)
(* greedy left-to-right scan below is the whole match relation.  A         *)
(* position of 0 is "no match".                                            *)
(***************************************************************************)
LitBilayer == <<"b","i","l","a","y","e","r">>
LitInner   == <<"i","n","n","e","r">>
LitOuter   == <<"o","u","t","e","r">>

RECURSIVE SkipWs(_, _)
SkipWs(s, p) == IF p <= Len(s) /\ IsSpace(s[p]) THEN SkipWs(s, p+1) ELSE p

\* \s* from p
Ws(s, p) == IF p = 0 THEN 0 ELSE SkipWs(s, p)

\* the literal lit at p
Lit(s, p, lit) ==
    IF p > 0 /\ p + Len(lit) - 1 <= Len(s) /\ SubSeq(s, p, p + Len(lit) - 1) = lit
    THEN p + Len(lit) ELSE 0

RECURSIVE ScanId(_, _)
ScanId(s, p) == IF p <= Len(s) /\ IsIdChar(s[p]) THEN ScanId(s, p+1) ELSE p

\* [A-Za-z0-9_]+ from p
Id(s, p) == IF p > 0 /\ ScanId(s, p) > p THEN ScanId(s, p) ELSE 0

\* the pattern without its closing anchor (used only to state a fault)
RE_BILAYER_unanchored(t) ==
    LET a1 == Ws(t, Lit(t, 1, LitBilayer))
        a2 == Ws(t, Lit(t, a1, <<"(">>))
        a3 == Ws(t, Lit(t, a2, LitInner))
        g1 == Ws(t, Lit(t, a3, <<"=">>))
        e1 == Id(t, g1)
        a4 == Ws(t, Lit(t, Ws(t, e1), <<",">>))
        a5 == Ws(t, Lit(t, a4, LitOuter))
        g2 == Ws(t, Lit(t, a5, <<"=">>))
        e2 == Id(t, g2)
        a6 == Ws(t, Lit(t, Ws(t, e2), <<")">>))
        ok == a6 > 0
    IN  [matched |-> ok,
         inner   |-> IF ok THEN SubSeq(t, g1, e1 - 1) ELSE <<>>,
         outer   |-> IF ok THEN SubSeq(t, g2, e2 - 1) ELSE <<>>]

\* RE_BILAYER.match(t): matched, and groups 1 and 2
RE_BILAYER(t) ==
    LET a1 == Ws(t, Lit(t, 1, LitBilayer))
        a2 == Ws(t, Lit(t, a1, <<"(">>))
        a3 == Ws(t, Lit(t, a2, LitInner))
        g1 == Ws(t, Lit(t, a3, <<"=">>))
        e1 == Id(t, g1)
        a4 == Ws(t, Lit(t, Ws(t, e1), <<",">>))
        a5 == Ws(t, Lit(t, a4, LitOuter))
        g2 == Ws(t, Lit(t, a5, <<"=">>))
        e2 == Id(t, g2)
        a6 == Ws(t, Lit(t, Ws(t, e2), <<")">>))
        ok == a6 = Len(t) + 1
    IN  [matched |-> ok,
         inner   |-> IF ok THEN SubSeq(t, g1, e1 - 1) ELSE <<>>,
         outer   |-> IF ok THEN SubSeq(t, g2, e2 - 1) ELSE <<>>]

(***************************************************************************)
(* extract_bilayers_from_model                                             *)
(***************************************************************************)
\* tokens = [t.strip() for t in stack.split("|")]
StripAll(parts) == [k \in 1..Len(parts) |-> strip(parts[k])]

RECURSIVE KeptTokens(_)
KeptTokens(tokens) ==
    IF tokens = <<>> THEN <<>>
    ELSE IF RE_BILAYER(Head(tokens)).matched THEN KeptTokens(Tail(tokens))
    ELSE <<Head(tokens)>> \o KeptTokens(Tail(tokens))

RECURSIVE MatchedBilayers(_)
MatchedBilayers(tokens) ==
    IF tokens = <<>> THEN <<>>
    ELSE LET m == RE_BILAYER(Head(tokens))
         IN  IF m.matched
             THEN <<[inner |-> m.inner, outer |-> m.outer]>>
                      \o MatchedBilayers(Tail(tokens))
             ELSE MatchedBilayers(Tail(tokens))

\* the separator the kept tokens are written back with
StackSep == <<" ", "|", " ">>

\* a fault: the kept tokens written back with a bare "|"
extract_joined_bare(stack) ==
    LET tokens == StripAll(split(stack, "|"))
    IN  [stack    |-> join(<<"|">>, KeptTokens(tokens)),
         bilayers |-> MatchedBilayers(tokens)]

\* the new value of model.stack, and the returned list
extract_bilayers_from_model(stack) ==
    LET tokens == StripAll(split(stack, "|"))
    IN  [stack    |-> join(StackSep, KeptTokens(tokens)),
         bilayers |-> MatchedBilayers(tokens)]

IdDPPC == <<"D","P","P","C">>
IdPO_1 == <<"P","O","_","1">>

(***************************************************************************)
(* Numbers.  Volumes are whole cubic angstroms, scattering lengths whole   *)
(* femtometres, scattering-length densities whole multiples of 1e-12 per   *)
(* square angstrom; a float division is the quotient rounded to the unit.  *)
(***************************************************************************)
Abs(x) == IF x < 0 THEN -x ELSE x

\* n / d for d > 0, rounded to the nearest integer, ties to even
RoundDiv(n, d) ==
    LET q == n \div d
        r == n - q * d
    IN  IF 2 * r > d \/ (2 * r = d /\ q % 2 = 1) THEN q + 1 ELSE q

RECURSIVE SumSeq(_)
SumSeq(q) == IF q = <<>> THEN 0 ELSE Head(q) + SumSeq(Tail(q))

(***************************************************************************)
(* molgroups objects as the resolver reads them.  An attribute is absent,  *)
(* None, a number, or (nSLs of a tail group) an array of numbers.          *)
(***************************************************************************)
AttrAbsent == [kind |-> "absent", v |-> 0, a |-> <<>>]
AttrNone   == [kind |-> "none", v |-> 0, a |-> <<>>]
AttrNum(x) == [kind |-> "num", v |-> x, a |-> <<>>]
AttrArr(q) == [kind |-> "array", v |-> 0, a |-> q]

\* getattr(o, name, 0.0)
GetattrOrZero(attr) == IF attr.kind = "absent" THEN AttrNum(0) ELSE attr

\* scalar_nsl on one attribute value: np.array(x).sum(), else float(x), else 0.0
\* (np is not None whenever HAS_MOLGROUPS, the only case it is called in)
scalar_nsl(x) ==
    CASE x.kind = "num"   -> x.v
      [] x.kind = "array" -> SumSeq(x.a)
      [] OTHER            -> 0

\* scalar_nsl on the list [getattr(c, "nSLs", 0.0) for c in head_components]
scalar_nsl_list(xs) ==
    IF \E k \in 1..Len(xs) : xs[k].kind # "num" THEN 0
    ELSE SumSeq([k \in 1..Len(xs) |-> xs[k].v])

\* float(x or 0.0)
FloatOrZero(attr) == IF attr.kind = "num" THEN attr.v ELSE 0

HeadVolDefault == 330
TailVolDefault == 800

\* lines 66-73: the head volume and scattering length the try block leaves
HeadTry(obj) ==
    IF obj.headgroup.kind = "raises" THEN [vol |-> 0, nsl |-> 0]
    ELSE LET comps == obj.headgroup.components
             cvs   == [k \in 1..Len(comps) |-> GetattrOrZero(comps[k].cell_volume)]
             nsls  == [k \in 1..Len(comps) |-> GetattrOrZero(comps[k].nSLs)]
         IN  IF \E k \in 1..Len(cvs) : cvs[k].kind # "num"
             THEN [vol |-> 0, nsl |-> 0]    \* sum() raises: except branch
             ELSE [vol |-> SumSeq([k \in 1..Len(cvs) |-> cvs[k].v]),
                   nsl |-> scalar_nsl_list(nsls)]

\* lines 90-96
TailTry(obj) ==
    IF obj.tails.kind = "raises" THEN [vol |-> 0, nsl |-> 0]
    ELSE [vol |-> FloatOrZero(GetattrOrZero(obj.tails.cell_volume)),
          nsl |-> scalar_nsl(GetattrOrZero(obj.tails.nSLs))]

\* a fault: the conversion constant 1e-6 for 1e-5
SldOf_unscaled(nsl, vol) ==
    IF vol > 0 /\ nsl # 0 THEN RoundDiv(nsl * 1000000, vol) ELSE 0

\* nSL (fm) * 1e-5 / volume, in units of 1e-12
SldOf(nsl, vol) ==
    IF vol > 0 /\ nsl # 0 THEN RoundDiv(nsl * 10000000, vol) ELSE 0

NoConsts ==
    [raised |-> FALSE, is_none |-> TRUE, name |-> <<>>,
     head_vol |-> 0, head_sld |-> 0, tail_vol |-> 0, tail_sld |-> 0]

RaisedConsts == [NoConsts EXCEPT !.raised = TRUE, !.is_none = FALSE]

\* a fault: getattr(lipids, lipid_name) with no default and no DPPC fallback
Lookup_no_default(name) ==
    IF name \in DOMAIN lipids
    THEN [raised |-> FALSE, obj |-> lipids[name]]
    ELSE [raised |-> TRUE, obj |-> lipids[IdDPPC]]

\* lines 60-63: the named lipid, DPPC when molgroups has no such name
Lookup(name) ==
    [raised |-> FALSE,
     obj |-> IF name \in DOMAIN lipids THEN lipids[name] ELSE lipids[IdDPPC]]

get_lipid_constants(name) ==
    IF ~HAS_MOLGROUPS THEN NoConsts
    ELSE IF Lookup(name).raised THEN RaisedConsts
    ELSE LET obj == Lookup(name).obj
             h   == HeadTry(obj)
             hv1 == IF h.vol <= 0 THEN FloatOrZero(obj.headgroup_volume) ELSE h.vol
             hv  == IF hv1 <= 0 THEN HeadVolDefault ELSE hv1
             t   == TailTry(obj)
             tv  == IF t.vol <= 0 THEN TailVolDefault ELSE t.vol
         IN  [raised |-> FALSE, is_none |-> FALSE, name |-> name,
              head_vol |-> hv, head_sld |-> SldOf(h.nsl, hv),
              tail_vol |-> tv, tail_sld |-> SldOf(t.nsl, tv)]

(***************************************************************************)
(* _flatten_lipid and build_bilayer_specs                                  *)
(***************************************************************************)
FlatHeadVolFallback == 300
FlatTailVolFallback == 800
\* 1e-6 in units of 1e-12
FlatSldFallback == 1000000

\* the four values _flatten_lipid takes from one lipid's constants
Flatten(c) ==
    IF c.is_none
    THEN [v_head |-> FlatHeadVolFallback, v_tail |-> FlatTailVolFallback,
          sld_head |-> FlatSldFallback, sld_tail |-> FlatSldFallback]
    ELSE [v_head |-> c.head_vol, v_tail |-> c.tail_vol,
          sld_head |-> c.head_sld, sld_tail |-> c.tail_sld]

\* one enriched spec: lines 187-204
EnrichedSpec(tok) ==
    LET fi == Flatten(get_lipid_constants(tok.inner))
        fo == Flatten(get_lipid_constants(tok.outer))
    IN  [inner |-> tok.inner, outer |-> tok.outer,
         v_head_inner |-> fi.v_head, v_tail_inner |-> fi.v_tail,
         sld_head_inner |-> fi.sld_head, sld_tail_inner |-> fi.sld_tail,
         v_head_outer |-> fo.v_head, v_tail_outer |-> fo.v_tail,
         sld_head_outer |-> fo.sld_head, sld_tail_outer |-> fo.sld_tail]

\* a fault: no check of HAS_MOLGROUPS, the fallback numbers are used
build_bilayer_specs_fallback(raw) ==
    IF raw.is_none \/ raw.items = <<>>
    THEN [raised |-> FALSE, specs |-> <<>>, calls |-> 0]
    ELSE [raised |-> FALSE,
          specs  |-> [k \in 1..Len(raw.items) |-> EnrichedSpec(raw.items[k])],
          calls  |-> 2 * Len(raw.items)]

\* raised: the RuntimeError of line 183; calls: get_lipid_constants calls made
build_bilayer_specs(raw) ==
    IF raw.is_none \/ raw.items = <<>>
    THEN [raised |-> FALSE, specs |-> <<>>, calls |-> 0]
    ELSE IF ~HAS_MOLGROUPS
    THEN [raised |-> TRUE, specs |-> <<>>, calls |-> 0]
    ELSE [raised |-> FALSE,
          specs  |-> [k \in 1..Len(raw.items) |-> EnrichedSpec(raw.items[k])],
          calls  |-> 2 * Len(raw.items)]

(***************************************************************************)
(* Text of numbers: Python's {x:.6g}.  A number keeps six significant      *)
(* digits, the seventh rounding the sixth (ties to even).                  *)
(***************************************************************************)
RECURSIVE Pow10(_)
Pow10(k) == IF k = 0 THEN 1 ELSE 10 * Pow10(k - 1)

RECURSIVE NumDigits(_)
NumDigits(x) == IF x < 10 THEN 1 ELSE 1 + NumDigits(x \div 10)

\* a fault: the number written in full
Fmt_full(x) == x

Fmt6g(x) ==
    LET a == Abs(x)
        k == NumDigits(a) - 6
    IN  IF k <= 0 THEN x
        ELSE (IF x < 0 THEN -1 ELSE 1) * RoundDiv(a, Pow10(k)) * Pow10(k)

(***************************************************************************)
(* emit_matlab_model.  The generated function is kept as its executable    *)
(* statements, in the order of the emitted lines (comment lines carry no   *)
(* behaviour).  A MATLAB variable name{k} is the pair [n |-> name, k |-> k]. *)
(***************************************************************************)
Var(n, k) == [n |-> n, k |-> k]
NoVar == Var("", 0)

Stmt(op, dst, a, b, c, d, val) ==
    [op |-> op, dst |-> dst, a |-> a, b |-> b, c |-> c, d |-> d, val |-> val]

\* idx = 1;
SIdxInit == Stmt("idx_init", NoVar, NoVar, NoVar, NoVar, NoVar, 0)
\* dst = params(idx); idx = idx + 1;
SRead(dst) == Stmt("read", dst, NoVar, NoVar, NoVar, NoVar, 0)
\* dst = <number>;
SConst(dst, val) == Stmt("const", dst, NoVar, NoVar, NoVar, NoVar, val)
\* output = [];
SOutInit == Stmt("out_init", NoVar, NoVar, NoVar, NoVar, NoVar, 0)
\* dst = a / b;
SDiv(dst, a, b) == Stmt("div", dst, a, b, NoVar, NoVar, 0)
\* dst = a * bulkOut(contrast) + (1 - a) * b;
SMix(dst, a, b) == Stmt("mix", dst, a, b, NoVar, NoVar, 0)
\* dst = a;
SCopy(dst, a) == Stmt("copy", dst, a, NoVar, NoVar, NoVar, 0)
\* dst = [a, b, c];
SRow(dst, a, b, c) == Stmt("row", dst, a, b, c, NoVar, 0)
\* dst = [a; b; c; d];
SBlock(dst, a, b, c, d) == Stmt("block", dst, a, b, c, d, 0)
\* output = [output; a];
SAppend(a) == Stmt("append", NoVar, a, NoVar, NoVar, NoVar, 0)

RECURSIVE Flat(_)
Flat(qq) == IF qq = <<>> THEN <<>> ELSE Head(qq) \o Flat(Tail(qq))

\* lines 68-74
LayerReads(i) ==
    << SRead(Var("layerThick", i)), SRead(Var("layerSLD", i)),
       SRead(Var("layerRough", i)) >>

\* a fault: head hydrations unpacked in the other order
BilayerReads_swapped(j) ==
    << SRead(Var("bilayerAPM", j)), SRead(Var("bilayerHeadHydOuter", j)),
       SRead(Var("bilayerHeadHydInner", j)),
       SRead(Var("bilayerBilayerHydration", j)), SRead(Var("bilayerRough", j)) >>

\* lines 80-90
BilayerReads(j) ==
    << SRead(Var("bilayerAPM", j)), SRead(Var("bilayerHeadHydInner", j)),
       SRead(Var("bilayerHeadHydOuter", j)),
       SRead(Var("bilayerBilayerHydration", j)), SRead(Var("bilayerRough", j)) >>

\* lines 97-121
BilayerConsts(j, bl) ==
    << SConst(Var("vHeadInner", j), Fmt6g(bl.v_head_inner)),
       SConst(Var("vTailInner", j), Fmt6g(bl.v_tail_inner)),
       SConst(Var("vHeadOuter", j), Fmt6g(bl.v_head_outer)),
       SConst(Var("vTailOuter", j), Fmt6g(bl.v_tail_outer)),
       SConst(Var("sldHeadInner", j), Fmt6g(bl.sld_head_inner)),
       SConst(Var("sldTailInner", j), Fmt6g(bl.sld_tail_inner)),
       SConst(Var("sldHeadOuter", j), Fmt6g(bl.sld_head_outer)),
       SConst(Var("sldTailOuter", j), Fmt6g(bl.sld_tail_outer)) >>

\* lines 131-135
LayerRows(i) ==
    << SRow(Var("L", i), Var("layerThick", i), Var("layerSLD", i),
            Var("layerRough", i)),
       SAppend(Var("L", i)) >>

\* lines 141-144
BilayerThicks(j) ==
    << SDiv(Var("headInnerThick", j), Var("vHeadInner", j), Var("bilayerAPM", j)),
       SDiv(Var("tailInnerThick", j), Var("vTailInner", j), Var("bilayerAPM", j)),
       SDiv(Var("tailOuterThick", j), Var("vTailOuter", j), Var("bilayerAPM", j)),
       SDiv(Var("headOuterThick", j), Var("vHeadOuter", j), Var("bilayerAPM", j)) >>

\* a fault: the outer head mixed with the inner head's hydration
BilayerMixes_one_head_hydration(j) ==
    << SMix(Var("headInnerSLD", j), Var("bilayerHeadHydInner", j), Var("sldHeadInner", j)),
       SMix(Var("headOuterSLD", j), Var("bilayerHeadHydInner", j), Var("sldHeadOuter", j)),
       SMix(Var("tailInnerSLD", j), Var("bilayerBilayerHydration", j), Var("sldTailInner", j)),
       SMix(Var("tailOuterSLD", j), Var("bilayerBilayerHydration", j), Var("sldTailOuter", j)) >>

\* lines 147-158
BilayerMixes(j) ==
    << SMix(Var("headInnerSLD", j), Var("bilayerHeadHydInner", j), Var("sldHeadInner", j)),
       SMix(Var("headOuterSLD", j), Var("bilayerHeadHydOuter", j), Var("sldHeadOuter", j)),
       SMix(Var("tailInnerSLD", j), Var("bilayerBilayerHydration", j), Var("sldTailInner", j)),
       SMix(Var("tailOuterSLD", j), Var("bilayerBilayerHydration", j), Var("sldTailOuter", j)) >>

\* a fault: the two tail sublayers stacked in the other order
BilayerStack_tails_swapped(j) ==
    << SCopy(Var("bilayerRoughAll", j), Var("bilayerRough", j)),
       SRow(Var("headInner", j), Var("headInnerThick", j), Var("headInnerSLD", j),
            Var("bilayerRoughAll", j)),
       SRow(Var("tailInner", j), Var("tailInnerThick", j), Var("tailInnerSLD", j),
            Var("bilayerRoughAll", j)),
       SRow(Var("tailOuter", j), Var("tailOuterThick", j), Var("tailOuterSLD", j),
            Var("bilayerRoughAll", j)),
       SRow(Var("headOuter", j), Var("headOuterThick", j), Var("headOuterSLD", j),
            Var("bilayerRoughAll", j)),
       SBlock(Var("bilayerBlock", j), Var("headInner", j), Var("tailOuter", j),
              Var("tailInner", j), Var("headOuter", j)),
       SAppend(Var("bilayerBlock", j)) >>

\* lines 161-180.  The parameter bilayer{j}Rough is Var("bilayerRough", j);
\* the local bilayerRough{j} of line 161 is Var("bilayerRoughAll", j).
BilayerStack(j) ==
    << SCopy(Var("bilayerRoughAll", j), Var("bilayerRough", j)),
       SRow(Var("headInner", j), Var("headInnerThick", j), Var("headInnerSLD", j),
            Var("bilayerRoughAll", j)),
       SRow(Var("tailInner", j), Var("tailInnerThick", j), Var("tailInnerSLD", j),
            Var("bilayerRoughAll", j)),
       SRow(Var("tailOuter", j), Var("tailOuterThick", j), Var("tailOuterSLD", j),
            Var("bilayerRoughAll", j)),
       SRow(Var("headOuter", j), Var("headOuterThick", j), Var("headOuterSLD", j),
            Var("bilayerRoughAll", j)),
       SBlock(Var("bilayerBlock", j), Var("headInner", j), Var("tailInner", j),
              Var("tailOuter", j), Var("headOuter", j)),
       SAppend(Var("bilayerBlock", j)) >>

\* lines 138-181
BilayerBlock(j) == BilayerThicks(j) \o BilayerMixes(j) \o BilayerStack(j)

\* the statements of the generated function, in order
emit_matlab_model(layers, bilayers_) ==
    <<SIdxInit, SRead(Var("subRough", 0))>>
        \o Flat([i \in 1..Len(layers) |-> LayerReads(i)])
        \o Flat([j \in 1..Len(bilayers_) |-> BilayerReads(j)])
        \o Flat([j \in 1..Len(bilayers_) |-> BilayerConsts(j, bilayers_[j])])
        \o <<SOutInit>>
        \o Flat([i \in 1..Len(layers) |-> LayerRows(i)])
        \o Flat([j \in 1..Len(bilayers_) |-> BilayerBlock(j)])

(***************************************************************************)
(* What the generated function computes (MATLAB).  Scalars are exact       *)
(* fractions [n, d]; a matrix is a sequence of rows <<thickness, sld,       *)
(* roughness>>, a row vector a matrix of one row.                          *)
(***************************************************************************)
Frac(n, d) == [n |-> n, d |-> d]
FracEq(x, y) == x.n * y.d = y.n * x.d
FracDiv(x, y) ==
    IF y.n < 0 THEN Frac(-(x.n * y.d), -(x.d * y.n)) ELSE Frac(x.n * y.d, x.d * y.n)
\* h * b + (1 - h) * s
FracMix(h, b, s) ==
    Frac(h.n * b.n * s.d + (h.d - h.n) * s.n * b.d, h.d * b.d * s.d)

MState(idx, env, out, reads, okay) ==
    [idx |-> idx, env |-> env, out |-> out, reads |-> reads, ok |-> okay]

\* one statement; ok turns FALSE on an index past the end of params, a
\* division by zero or a name not yet assigned
Step(st, s, params, bulkOut, contrast) ==
    LET known(v) == v \in DOMAIN s.env
        set(v, x) == [s EXCEPT !.env = (v :> x) @@ s.env]
        fail == [s EXCEPT !.ok = FALSE]
    IN  CASE st.op = "idx_init" -> [s EXCEPT !.idx = 1]
          [] st.op = "read" ->
                IF s.idx \in 1..Len(params)
                THEN [s EXCEPT !.env = (st.dst :> params[s.idx]) @@ s.env,
                               !.idx = s.idx + 1,
                               !.reads = Append(s.reads, st.dst)]
                ELSE fail
          [] st.op = "const" -> set(st.dst, Frac(st.val, 1))
          [] st.op = "out_init" -> [s EXCEPT !.out = <<>>]
          [] st.op = "div" ->
                IF known(st.a) /\ known(st.b) /\ s.env[st.b].n # 0
                THEN set(st.dst, FracDiv(s.env[st.a], s.env[st.b]))
                ELSE fail
          [] st.op = "mix" ->
                IF known(st.a) /\ known(st.b) /\ contrast \in 1..Len(bulkOut)
                THEN set(st.dst, FracMix(s.env[st.a], Frac(bulkOut[contrast], 1),
                                         s.env[st.b]))
                ELSE fail
          [] st.op = "copy" ->
                IF known(st.a) THEN set(st.dst, s.env[st.a]) ELSE fail
          [] st.op = "row" ->
                IF known(st.a) /\ known(st.b) /\ known(st.c)
                THEN set(st.dst, << <<s.env[st.a], s.env[st.b], s.env[st.c]>> >>)
                ELSE fail
          [] st.op = "block" ->
                IF known(st.a) /\ known(st.b) /\ known(st.c) /\ known(st.d)
                THEN set(st.dst, s.env[st.a] \o s.env[st.b] \o s.env[st.c]
                                     \o s.env[st.d])
                ELSE fail
          [] st.op = "append" ->
                IF known(st.a) THEN [s EXCEPT !.out = s.out \o s.env[st.a]]
                ELSE fail

\* the statements from the k-th on; the first failing one ends the call
RECURSIVE RunStmts(_, _, _, _, _, _)
RunStmts(code, k, s, params, bulkOut, contrast) ==
    IF k > Len(code) THEN s
    ELSE LET s2 == Step(code[k], s, params, bulkOut, contrast)
         IN  IF s2.ok THEN RunStmts(code, k + 1, s2, params, bulkOut, contrast)
             ELSE s2

\* [output, subRough] = fn(params, bulkIn, bulkOut, contrast)
RunModel(code, params, bulkOut, contrast) ==
    RunStmts(code, 1, MState(0, <<>>, <<>>, <<>>, TRUE), params, bulkOut, contrast)

(***************************************************************************)
(* emit_matlab_driver.  The script is kept as what it declares: the        *)
(* entries of the parameter group, the scale factor, the bulk declarations *)
(* and the contrast blocks, each in the order of the emitted lines.        *)
(***************************************************************************)
Min2(x, y) == IF x <= y THEN x ELSE y
Max2(x, y) == IF x >= y THEN x ELSE y

\* 1e-6 as a fraction of the unit: of an angstrom, and of 1e-12 per square angstrom
TinyLen == Frac(1, 1000000)
TinySld == Frac(1000000, 1)

\* a fault: lo and hi as computed, not ordered
span_unordered(val, pct, tiny) ==
    IF val = 0
    THEN [lo |-> Frac(-tiny.n, tiny.d), val |-> Frac(0, 1), hi |-> tiny]
    ELSE [lo  |-> Frac(val * (100 - pct), 100),
          val |-> Frac(val, 1),
          hi  |-> Frac(val * (100 + pct), 100)]

\* _span(val, frac) with frac = pct / 100; tiny is 1e-6 in the unit of val.
\* On whole numbers of either unit abs(val) < 1e-12 is val = 0.
span(val, pct, tiny) ==
    IF val = 0
    THEN [lo |-> Frac(-tiny.n, tiny.d), val |-> Frac(0, 1), hi |-> tiny]
    ELSE [lo  |-> Frac(Min2(val * (100 - pct), val * (100 + pct)), 100),
          val |-> Frac(val, 1),
          hi  |-> Frac(Max2(val * (100 - pct), val * (100 + pct)), 100)]

\* {x:.6g} of a decimal fraction
FmtFrac(x) == Frac(Fmt6g(x.n), x.d)

\* re.sub(r"\s+", " ", s)
RECURSIVE CollapseWs(_)
CollapseWs(t) ==
    IF t = <<>> THEN <<>>
    ELSE IF IsSpace(Head(t))
         THEN <<" ">> \o CollapseWs(lstrip(t))
         ELSE <<Head(t)>> \o CollapseWs(Tail(t))

\* re.sub(r"[^A-Za-z0-9_]+", "_", s)
RECURSIVE DropNonId(_)
DropNonId(t) == IF t # <<>> /\ ~IsIdChar(Head(t)) THEN DropNonId(Tail(t)) ELSE t

RECURSIVE SanitizeId(_)
SanitizeId(t) ==
    IF t = <<>> THEN <<>>
    ELSE IF IsIdChar(Head(t)) THEN <<Head(t)>> \o SanitizeId(Tail(t))
         ELSE <<"_">> \o SanitizeId(DropNonId(t))

DigitChars == <<"0","1","2","3","4","5","6","7","8","9">>

\* str(i) for i >= 0
RECURSIVE StrOfNat(_)
StrOfNat(i) ==
    IF i < 10 THEN <<DigitChars[i + 1]>>
    ELSE StrOfNat(i \div 10) \o <<DigitChars[(i % 10) + 1]>>

Entry(base, suffix, b) ==
    [name |-> [base |-> base, suffix |-> suffix],
     min |-> FmtFrac(b.lo), val |-> FmtFrac(b.val), max |-> FmtFrac(b.hi)]

\* lines 74-89
LayerEntries(L) ==
    LET name == strip(CollapseWs(L.name))
    IN  << Entry(name, "thickness", span(L.thickness, 30, TinyLen)),
           Entry(name, "SLD", span(L.sld, 20, TinySld)),
           Entry(name, "rough", span(L.roughness, 50, TinyLen)) >>

Fixed(lo, val, hi) == [lo |-> lo, val |-> val, hi |-> hi]

\* a fault: the shared hydration declared before the head hydrations
BilayerEntries_hydration_first(j) ==
    LET name == <<"B","i","l","a","y","e","r">> \o StrOfNat(j)
    IN  << Entry(name, "APM", Fixed(Frac(40, 1), Frac(60, 1), Frac(80, 1))),
           Entry(name, "BilayerHydration", Fixed(Frac(0, 1), Frac(1, 10), Frac(1, 1))),
           Entry(name, "HeadHyd Inner", Fixed(Frac(0, 1), Frac(2, 10), Frac(1, 1))),
           Entry(name, "HeadHyd Outer", Fixed(Frac(0, 1), Frac(2, 10), Frac(1, 1))),
           Entry(name, "Rough", Fixed(Frac(1, 1), Frac(4, 1), Frac(10, 1))) >>

\* lines 94-110
BilayerEntries(j) ==
    LET name == <<"B","i","l","a","y","e","r">> \o StrOfNat(j)
    IN  << Entry(name, "APM", Fixed(Frac(40, 1), Frac(60, 1), Frac(80, 1))),
           Entry(name, "HeadHyd Inner", Fixed(Frac(0, 1), Frac(2, 10), Frac(1, 1))),
           Entry(name, "HeadHyd Outer", Fixed(Frac(0, 1), Frac(2, 10), Frac(1, 1))),
           Entry(name, "BilayerHydration", Fixed(Frac(0, 1), Frac(1, 10), Frac(1, 1))),
           Entry(name, "Rough", Fixed(Frac(1, 1), Frac(4, 1), Frac(10, 1))) >>

\* lines 118-121
Scalefactor ==
    [name |-> "Scalefactor 1", min |-> Frac(5, 10), val |-> Frac(1, 1),
     max |-> Frac(2, 1)]

\* a fault: the bounding bulks not skipped
InternalLayers_with_bulks(contrast) == contrast

\* layers_all[0][1:-1]
InternalLayers(contrast) ==
    IF Len(contrast) <= 2 THEN <<>> ELSE SubSeq(contrast, 2, Len(contrast) - 1)

\* round(sld, 8): 1e-8 is 10000 units of 1e-12
Round8(sld) == RoundDiv(sld, 10000) * 10000

\* unique(base, used): base, else base_2, base_3, ...
RECURSIVE UniqueFrom(_, _, _)
UniqueFrom(base, used, i) ==
    LET name == IF i = 1 THEN base ELSE base \o <<"_">> \o StrOfNat(i)
    IN  IF name \in used THEN UniqueFrom(base, used, i + 1) ELSE name

unique(base, used) == UniqueFrom(base, used, 1)

\* a fault: the map keyed by the name alone
BulkKey_name_only(bulk) == [name |-> bulk.name, sld |-> 0]

\* line 146
BulkKey(bulk) == [name |-> bulk.name, sld |-> Round8(bulk.sld)]

\* ensure_bulk: the name to use, the sets after the call, the line emitted
ensure_bulk(bulk, used_set, mapping, add_func_name) ==
    LET key == BulkKey(bulk)
    IN  IF key \in DOMAIN mapping
        THEN [name |-> mapping[key], used |-> used_set, mapping |-> mapping,
              lines |-> <<>>]
        ELSE LET safe_name == unique(bulk.name, used_set)
                 b == span(bulk.sld, 2, TinySld)
             IN  [name |-> safe_name,
                  used |-> used_set \cup {safe_name},
                  mapping |-> (key :> safe_name) @@ mapping,
                  lines |-> <<[fn |-> add_func_name, name |-> safe_name,
                               min |-> FmtFrac(b.lo),
                               val |-> Frac(Fmt6g(bulk.sld), 1),
                               max |-> FmtFrac(b.hi)]>>]

NoBulks ==
    [used_in |-> {}, used_out |-> {}, map_in |-> <<>>, map_out |-> <<>>,
     lines |-> <<>>, bulk_in_names |-> <<>>, bulk_out_names |-> <<>>]

\* lines 158-163: for bi, bo in zip(bulk_ins, bulk_outs)
RECURSIVE BulkLoop(_, _, _, _)
BulkLoop(bins, bouts, k, st) ==
    IF k > Min2(Len(bins), Len(bouts)) THEN st
    ELSE LET ri == ensure_bulk(bins[k], st.used_in, st.map_in, "addBulkIn")
             ro == ensure_bulk(bouts[k], st.used_out, st.map_out, "addBulkOut")
         IN  BulkLoop(bins, bouts, k + 1,
                 [used_in |-> ri.used, used_out |-> ro.used,
                  map_in |-> ri.mapping, map_out |-> ro.mapping,
                  lines |-> st.lines \o ri.lines \o ro.lines,
                  bulk_in_names |-> Append(st.bulk_in_names, ri.name),
                  bulk_out_names |-> Append(st.bulk_out_names, ro.name)])

\* lines 186-209: one block
ContrastBlock(i, cname, name_in, name_out) ==
    [i |-> i, name |-> SanitizeId(cname),
     background |-> [backs |-> <<"B","a","c","k","g","r","o","u","n","d"," ",
                                 "A","u","t","o"," ">> \o StrOfNat(i),
                     min |-> Frac(1, 100000000), val |-> Frac(1, 1000000),
                     max |-> Frac(1, 10000)],
     BulkIn |-> name_in, BulkOut |-> name_out]

NoDriver ==
    [raised |-> FALSE, params |-> <<>>, scalefactors |-> <<>>, bulks |-> <<>>,
     blocks |-> <<>>, cap |-> 0]

\* the script, or raised: the IndexError of layers_all[0] on an empty list
\* and of bulk_in_names[i-1] on more contrast names than bulk records
emit_matlab_driver(bulk_ins_, bulk_outs_, layers_all_, contrast_names_, bilayer_specs_) ==
    IF layers_all_ = <<>> THEN [NoDriver EXCEPT !.raised = TRUE]
    ELSE LET internal_layers == InternalLayers(layers_all_[1])
             b == BulkLoop(bulk_ins_, bulk_outs_, 1, NoBulks)
         IN  IF Len(contrast_names_) > Len(b.bulk_in_names)
             THEN [NoDriver EXCEPT !.raised = TRUE]
             ELSE [raised |-> FALSE,
                   params |->
                       Flat([k \in 1..Len(internal_layers) |->
                                 LayerEntries(internal_layers[k])])
                       \o Flat([j \in 1..Len(bilayer_specs_) |-> BilayerEntries(j)]),
                   scalefactors |-> <<Scalefactor>>,
                   bulks |-> b.lines,
                   blocks |-> [i \in 1..Len(contrast_names_) |->
                                  ContrastBlock(i, contrast_names_[i],
                                                b.bulk_in_names[i],
                                                b.bulk_out_names[i])],
                   cap |-> Len(contrast_names_)]

(***************************************************************************)
(* Stacks the extractor is run on: up to MaxTokens tokens, each written    *)
(* from one of the kinds below, separated in one of three ways.            *)
(***************************************************************************)
MaxTokens == 3


\* bilayer(inner=..., outer=...) written with w wherever the pattern has \s*
BilayerText(w, inner, outer) ==
    LitBilayer \o w \o <<"(">> \o w \o LitInner \o w \o <<"=">> \o w \o inner
        \o w \o <<",">> \o w \o LitOuter \o w \o <<"=">> \o w \o outer
        \o w \o <<")">>

Plain(text) == [text |-> text, wf |-> FALSE, inner |-> <<>>, outer |-> <<>>]
WellFormed(w, inner, outer) ==
    [text |-> BilayerText(w, inner, outer), wf |-> TRUE,
     inner |-> inner, outer |-> outer]

TokenKinds ==
    { Plain(<<"S","i">>),
      Plain(<<"S","i","O","2"," ","1","0">>),
      Plain(<<>>),
      WellFormed(<<>>, IdDPPC, IdPO_1),
      WellFormed(<<" ">>, IdPO_1, IdDPPC),
      \* not tokens of the pattern: capitalised, trailing text, a character
      \* outside the identifier class, no outer part
      Plain(<<"B">> \o Tail(BilayerText(<<>>, IdDPPC, IdDPPC))),
      Plain(BilayerText(<<>>, IdDPPC, IdDPPC) \o <<" ","x">>),
      Plain(BilayerText(<<>>, <<"D","-","C">>, IdDPPC)),
      Plain(LitBilayer \o <<"(">> \o LitInner \o <<"=">> \o IdDPPC \o <<")">>) }

PadStyles == {"bare", "spaced", "ragged"}

\* the stack string written from tokens toks in style pad
RenderStack(toks, pad) ==
    LET texts == [k \in 1..Len(toks) |-> toks[k].text]
    IN  CASE pad = "bare"   -> join(<<"|">>, texts)
          [] pad = "spaced" -> join(<<" ","|"," ">>, texts)
          [] pad = "ragged" -> <<" ">> \o join(<<" "," ","|">>, texts) \o <<"\t">>

RECURSIVE SeqsUpTo(_, _)
SeqsUpTo(S, n) ==
    IF n = 0 THEN {<<>>}
    ELSE LET shorter == SeqsUpTo(S, n - 1)
         IN  shorter \cup {Append(q, x) : q \in {r \in shorter : Len(r) = n - 1}, x \in S}

\* the values of the variables a specification does not use
IdleT ==
    /\ pcT = "idle" /\ tokens_in = [toks |-> <<>>, pad |-> "bare"]
    /\ stack_in = <<>> /\ model = [stack |-> <<>>] /\ bilayers = <<>>
IdleL == pcL = "idle" /\ lipid_name = <<>> /\ consts = NoConsts
IdleLib == HAS_MOLGROUPS = FALSE /\ lipids = <<>>
NoRaw == [is_none |-> TRUE, items |-> <<>>]
IdleX ==
    /\ orso_data = <<>> /\ done = 0 /\ layers_all = <<>>
    /\ bulk_ins = <<>> /\ bulk_outs = <<>> /\ contrast_names = <<>>
    /\ bilayer_specs_raw = NoRaw
IdleP ==
    /\ pc = "idle" /\ err = "" /\ IdleX
    /\ bilayer_specs = <<>> /\ resolver_calls = 0
NoRun ==
    [evaluated |-> FALSE, contrast |-> 0, hyd |-> <<>>, params |-> <<>>,
     bulkOut |-> <<>>, out |-> <<>>, reads |-> <<>>, ok |-> TRUE]
IdleE == model_code = <<>> /\ driver_code = NoDriver /\ run = NoRun

InitTokens ==
    /\ pcT = "call"
    /\ \E toks \in SeqsUpTo(TokenKinds, MaxTokens) \ {<<>>}, pad \in PadStyles :
          /\ tokens_in = [toks |-> toks, pad |-> pad]
          /\ stack_in = RenderStack(toks, pad)
          /\ model = [stack |-> RenderStack(toks, pad)]
    /\ bilayers = <<>>
    /\ IdleL /\ IdleLib /\ IdleP /\ IdleE

\* bilayers_here = extract_bilayers_from_model(model)
ExtractBilayers ==
    /\ pcT = "call"
    /\ LET r == extract_bilayers_from_model(model.stack)
       IN  /\ model' = [model EXCEPT !.stack = r.stack]
           /\ bilayers' = r.bilayers
    /\ pcT' = "returned"
    /\ UNCHANGED <<tokens_in, stack_in>>
    /\ UNCHANGED <<varsL, varsLib, varsP, varsE>>

NextTokens == ExtractBilayers

SpecTokens == InitTokens /\ [][NextTokens]_vars

\* what the input was written from
RECURSIVE WrittenBilayers(_)
WrittenBilayers(toks) ==
    IF toks = <<>> THEN <<>>
    ELSE (IF Head(toks).wf
          THEN <<[inner |-> Head(toks).inner, outer |-> Head(toks).outer]>>
          ELSE <<>>) \o WrittenBilayers(Tail(toks))

RECURSIVE WrittenOthers(_)
WrittenOthers(toks) ==
    IF toks = <<>> THEN <<>>
    ELSE (IF Head(toks).wf THEN <<>> ELSE <<Head(toks).text>>)
             \o WrittenOthers(Tail(toks))

NoneWellFormed(toks) == \A k \in 1..Len(toks) : ~toks[k].wf

\* C4: the well-formed bilayer tokens, and only they, leave the stack; they
\* come back as {inner, outer} records in the order written; every other
\* token stays, with its text and in its order, joined by " | ".
C4_TokenRoundTrip ==
    pcT = "returned" =>
        /\ bilayers = WrittenBilayers(tokens_in.toks)
        /\ model.stack = join(<<" ","|"," ">>, WrittenOthers(tokens_in.toks))

\* C4 witness: a bilayer token taken out from between two kept tokens, next
\* to a token that only resembles one.
C4_Witness ==
    /\ pcT = "returned"
    /\ Len(tokens_in.toks) = 3
    /\ tokens_in.toks[2].wf
    /\ ~tokens_in.toks[1].wf /\ ~tokens_in.toks[3].wf
    /\ Len(tokens_in.toks[3].text) > Len(LitBilayer)
    /\ Len(bilayers) = 1

\* C5 as stated: with no bilayer token the stack is the very string it was.
C5_StackUnchanged ==
    (pcT = "returned" /\ NoneWellFormed(tokens_in.toks)) =>
        (model.stack = stack_in /\ bilayers = <<>>)

\* C5 amended: with no bilayer token the returned list is empty and the
\* stack is rewritten as its tokens, each stripped, joined by " | "; that is
\* the string it was when it was already written so, and another string
\* when two tokens were separated by a bare "|".
C5_StackRejoined ==
    (pcT = "returned" /\ NoneWellFormed(tokens_in.toks)) =>
        /\ bilayers = <<>>
        /\ model.stack = join(<<" ","|"," ">>, WrittenOthers(tokens_in.toks))
        /\ (tokens_in.pad = "spaced" => model.stack = stack_in)
        /\ (tokens_in.pad = "bare" /\ Len(tokens_in.toks) > 1
                => model.stack # stack_in)

\* C5 witness: no token matches and the stack had no spaces around "|".
C5_Witness ==
    /\ pcT = "returned"
    /\ NoneWellFormed(tokens_in.toks)
    /\ tokens_in.pad = "bare"
    /\ Len(tokens_in.toks) = 2
    /\ bilayers = <<>>

(***************************************************************************)
(* The resolver on libraries in which DPPC is a complete lipid and a       *)
(* second lipid has any mix of missing, None, zero and failing fields.     *)
(***************************************************************************)
Comp(cv, nsl) == [cell_volume |-> cv, nSLs |-> nsl]
HeadOf(comps) == [kind |-> "ok", components |-> comps]
HeadRaises == [kind |-> "raises", components |-> <<>>]
TailsOf(cv, nsl) == [kind |-> "ok", cell_volume |-> cv, nSLs |-> nsl]
TailsRaise == [kind |-> "raises", cell_volume |-> AttrAbsent, nSLs |-> AttrAbsent]
Lipid(head, hgv, tails) ==
    [headgroup |-> head, headgroup_volume |-> hgv, tails |-> tails]

CompA == Comp(AttrNum(120), AttrNum(20))
CompB == Comp(AttrNum(211), AttrNum(40))

Heads ==
    { HeadRaises, HeadOf(<<>>), HeadOf(<<CompA>>), HeadOf(<<CompA, CompB>>),
      HeadOf(<<CompA, Comp(AttrNone, AttrNum(5))>>),
      HeadOf(<<CompA, Comp(AttrAbsent, AttrAbsent)>>),
      HeadOf(<<Comp(AttrNum(0), AttrNum(7))>>),
      HeadOf(<<CompB, Comp(AttrNum(9), AttrNone)>>) }

HeadgroupVolumes == {AttrAbsent, AttrNone, AttrNum(0), AttrNum(319), AttrNum(-5)}

TailGroups ==
    { TailsRaise,
      TailsOf(AttrNum(825), AttrArr(<<-36, 4>>)),
      TailsOf(AttrNum(972), AttrNum(-28)),
      TailsOf(AttrAbsent, AttrNum(-30)),
      TailsOf(AttrNone, AttrAbsent),
      TailsOf(AttrNum(0), AttrNone) }

LipidObjects ==
    {Lipid(h, v, t) : h \in Heads, v \in HeadgroupVolumes, t \in TailGroups}

\* DPPC as molgroups has it: every field present
CompleteLipids ==
    { Lipid(HeadOf(<<CompA, CompB>>), AttrAbsent,
            TailsOf(AttrNum(825), AttrArr(<<-36, 4>>))),
      Lipid(HeadOf(<<CompB>>), AttrNum(319), TailsOf(AttrNum(972), AttrNum(-28))) }

IdUnknown == <<"X","y","9">>

Library(dppc, other) ==
    [n \in {IdDPPC, IdPO_1} |-> IF n = IdDPPC THEN dppc ELSE other]

InitLipid ==
    /\ pcL = "call"
    /\ HAS_MOLGROUPS \in BOOLEAN
    /\ \E dppc \in CompleteLipids, other \in LipidObjects :
          lipids = IF HAS_MOLGROUPS THEN Library(dppc, other) ELSE <<>>
    /\ lipid_name \in {IdDPPC, IdPO_1, IdUnknown}
    /\ consts = NoConsts
    /\ IdleT /\ IdleP /\ IdleE

\* consts = get_lipid_constants(lipid_name)
GetLipidConstants ==
    /\ pcL = "call"
    /\ consts' = get_lipid_constants(lipid_name)
    /\ pcL' = "returned"
    /\ UNCHANGED <<lipid_name, varsLib, varsT, varsP, varsE>>

NextLipid == GetLipidConstants

SpecLipid == InitLipid /\ [][NextLipid]_vars

\* the volumes and densities of a lipid whose every field is present
CompleteHeadVol(obj) ==
    SumSeq([k \in 1..Len(obj.headgroup.components) |->
                obj.headgroup.components[k].cell_volume.v])
CompleteHeadNsl(obj) ==
    SumSeq([k \in 1..Len(obj.headgroup.components) |->
                obj.headgroup.components[k].nSLs.v])
CompleteTailNsl(obj) ==
    IF obj.tails.nSLs.kind = "array" THEN SumSeq(obj.tails.nSLs.a)
    ELSE obj.tails.nSLs.v

\* C8: with the property source present the resolver never raises and
\* returns a record whose four fields are numbers, for every identifier; for
\* an identifier the source does not know the values are DPPC's.  With the
\* source absent it returns None and does not raise.
C8_FallbackComplete ==
    pcL = "returned" =>
        /\ ~consts.raised
        /\ ~HAS_MOLGROUPS => consts.is_none
        /\ HAS_MOLGROUPS =>
              /\ ~consts.is_none
              /\ consts.name = lipid_name
              /\ {consts.head_vol, consts.head_sld,
                  consts.tail_vol, consts.tail_sld} \subseteq Int
              /\ lipid_name \notin DOMAIN lipids =>
                    LET d == lipids[IdDPPC]
                    IN  /\ consts.head_vol = CompleteHeadVol(d)
                        /\ consts.tail_vol = d.tails.cell_volume.v
                        /\ consts.head_sld * CompleteHeadVol(d)
                              \in (CompleteHeadNsl(d) * 10000000 - CompleteHeadVol(d))
                                  .. (CompleteHeadNsl(d) * 10000000 + CompleteHeadVol(d))
                        /\ consts.tail_sld * consts.tail_vol
                              \in (CompleteTailNsl(d) * 10000000 - consts.tail_vol)
                                  .. (CompleteTailNsl(d) * 10000000 + consts.tail_vol)

\* C8 witness: an unknown identifier resolved with the source present.
C8_Witness ==
    /\ pcL = "returned"
    /\ HAS_MOLGROUPS
    /\ lipid_name = IdUnknown
    /\ ~consts.is_none
    /\ consts.head_sld > 0 /\ consts.tail_sld < 0

\* C8 second case reached: the source absent, None returned.
C8_WitnessAbsent == pcL = "returned" /\ ~HAS_MOLGROUPS /\ consts.is_none

(***************************************************************************)
(* process_orso_file after its loop: lines 167-175                         *)
(***************************************************************************)
BuildBilayerSpecs ==
    /\ pc = "build"
    /\ IF layers_all = <<>>
       THEN /\ pc' = "failed"
            /\ err' = "RuntimeError: No valid models found in the ORSO file."
            /\ UNCHANGED varsB
       ELSE LET r == build_bilayer_specs(bilayer_specs_raw)
            IN  /\ resolver_calls' = resolver_calls + r.calls
                /\ bilayer_specs' = r.specs
                /\ pc' = IF r.raised THEN "failed" ELSE "main_model"
                /\ err' = IF r.raised
                          THEN "RuntimeError: molgroups.lipids is not installed."
                          ELSE ""
    /\ UNCHANGED <<varsX, varsLib, varsT, varsL, varsE>>

(***************************************************************************)
(* build_bilayer_specs on None, on the empty list and on up to MaxBilayers *)
(* tokens, with and without molgroups.                                     *)
(***************************************************************************)
MaxBilayers == 2

LipidIds == {IdDPPC, IdPO_1, IdUnknown}
RawTokens == {[inner |-> a, outer |-> b] : a \in LipidIds, b \in LipidIds}

\* a resolved contrast of bulk, one layer, bulk
Lyr(name, t, sld, r) == [name |-> name, thickness |-> t, sld |-> sld, roughness |-> r]
SomeContrast ==
    << Lyr(<<"S","i">>, 0, 2070000, 3), Lyr(<<"S","i","O","2">>, 10, 3470000, 3),
       Lyr(<<"D","2","O">>, 0, 6360000, 3) >>

InitBuild ==
    /\ pc = "build" /\ err = ""
    /\ orso_data = <<>> /\ done = 0
    /\ layers_all = <<SomeContrast>>
    /\ bulk_ins = <<[name |-> <<"S","i">>, sld |-> 2070000]>>
    /\ bulk_outs = <<[name |-> <<"D","2","O">>, sld |-> 6360000]>>
    /\ contrast_names = << <<"c","1">> >>
    /\ bilayer_specs_raw \in
          {NoRaw} \cup {[is_none |-> FALSE, items |-> q] :
                            q \in SeqsUpTo(RawTokens, MaxBilayers)}
    /\ bilayer_specs = <<>> /\ resolver_calls = 0
    /\ HAS_MOLGROUPS \in BOOLEAN
    /\ \E dppc \in CompleteLipids :
          lipids = IF HAS_MOLGROUPS
                   THEN Library(dppc, Lipid(HeadOf(<<Comp(AttrNum(0), AttrNum(7))>>),
                                            AttrNone, TailsRaise))
                   ELSE <<>>
    /\ IdleT /\ IdleL /\ IdleE

NextBuild == BuildBilayerSpecs

SpecBuild == InitBuild /\ [][NextBuild]_vars

RawIsEmpty == bilayer_specs_raw.is_none \/ bilayer_specs_raw.items = <<>>

\* C7: empty or absent input gives the empty list with no resolver call,
\* with or without the property table; non-empty input without the table
\* raises the RuntimeError and no spec is returned.
C7_EmptyOrHardFailure ==
    pc \in {"main_model", "failed"} =>
        /\ RawIsEmpty =>
              pc = "main_model" /\ err = "" /\ bilayer_specs = <<>>
                  /\ resolver_calls = 0
        /\ (~RawIsEmpty /\ ~HAS_MOLGROUPS) =>
              pc = "failed" /\ err # "" /\ bilayer_specs = <<>>
                  /\ resolver_calls = 0

\* C7 witness: a bilayer was requested and the table is unavailable.
C7_Witness ==
    /\ pc = "failed"
    /\ ~HAS_MOLGROUPS
    /\ Len(bilayer_specs_raw.items) = 2
    /\ bilayer_specs = <<>>

\* C7 first case reached: empty list in, nothing resolved, table absent.
C7_WitnessEmpty ==
    /\ pc = "main_model" /\ ~HAS_MOLGROUPS
    /\ ~bilayer_specs_raw.is_none /\ bilayer_specs_raw.items = <<>>

(***************************************************************************)
(* main, after process_orso_file has returned                              *)
(***************************************************************************)
\* lines 54-55
MainEmitModel ==
    /\ pc = "main_model"
    /\ model_code' = emit_matlab_model(InternalLayers(layers_all[1]), bilayer_specs)
    /\ pc' = "main_driver"
    /\ UNCHANGED <<err, varsX, varsB, driver_code, run, varsLib, varsT, varsL>>

\* lines 61-70
MainEmitDriver ==
    /\ pc = "main_driver"
    /\ LET d == emit_matlab_driver(bulk_ins, bulk_outs, layers_all,
                                   contrast_names, bilayer_specs)
       IN  IF d.raised
           THEN pc' = "failed" /\ err' = "IndexError" /\ UNCHANGED driver_code
           ELSE pc' = "done" /\ err' = "" /\ driver_code' = d
    /\ UNCHANGED <<varsX, varsB, model_code, run, varsLib, varsT, varsL>>

(***************************************************************************)
(* The generated function evaluated once, on a parameter vector laid out   *)
(* as its header documents (lines 41-46): substrate roughness, then        *)
(* [thickness, SLD, roughness] per layer, then [APM, HeadHydInner,         *)
(* HeadHydOuter, BilayerHydration, Rough] per bilayer.                     *)
(***************************************************************************)
LayerParams(i) == <<Frac(100 + i, 1), Frac(1000000 * i + 1, 1), Frac(10 + i, 1)>>
BilayerParams(j, hyd) == <<Frac(50 + 7 * j, 1), hyd[1], hyd[2], hyd[3], Frac(4 + j, 1)>>

ParamVector(nlayers, nbilayers, hyd) ==
    <<Frac(3, 1)>>
        \o Flat([i \in 1..nlayers |-> LayerParams(i)])
        \o Flat([j \in 1..nbilayers |-> BilayerParams(j, hyd)])

\* head-inner, head-outer and shared hydration: each is 0, 1 and 1/4 once
HydSettings ==
    { <<Frac(0, 1), Frac(1, 1), Frac(1, 4)>>,
      <<Frac(1, 1), Frac(1, 4), Frac(0, 1)>>,
      <<Frac(1, 4), Frac(0, 1), Frac(1, 1)>> }

EvalModel ==
    /\ pc = "done"
    /\ ~run.evaluated
    /\ \E c \in 1..Len(bulk_outs), hyd \in HydSettings :
          LET params == ParamVector(Len(InternalLayers(layers_all[1])),
                                    Len(bilayer_specs), hyd)
              bulkOut == [k \in 1..Len(bulk_outs) |-> bulk_outs[k].sld]
              r == RunModel(model_code, params, bulkOut, c)
          IN  run' = [evaluated |-> TRUE, contrast |-> c, hyd |-> hyd,
                      params |-> params, bulkOut |-> bulkOut,
                      out |-> r.out, reads |-> r.reads, ok |-> r.ok]
    /\ UNCHANGED <<pc, err, varsX, varsB, model_code, driver_code, varsLib,
                   varsT, varsL>>

(***************************************************************************)
(* The two emitters on any internal layers (up to MaxLayers) and any       *)
(* bilayer specs (up to MaxBilayers), given to both as main gives them.    *)
(***************************************************************************)
MaxLayers == 2

LayerPool ==
    { Lyr(<<"S","i","O","2">>, 10, 3470000, 3),
      Lyr(<<"h","e","a","d"," "," ","g","r","p">>, 1234567, -560000, 0) }

BSpec(i, o, vhi, vti, vho, vto, shi, sti, sho, sto) ==
    [inner |-> i, outer |-> o,
     v_head_inner |-> vhi, v_tail_inner |-> vti,
     sld_head_inner |-> shi, sld_tail_inner |-> sti,
     v_head_outer |-> vho, v_tail_outer |-> vto,
     sld_head_outer |-> sho, sld_tail_outer |-> sto]

BilayerPool ==
    { BSpec(IdDPPC, IdDPPC, 331, 825, 331, 825, 1812689, -387879, 1812689, -387879),
      BSpec(IdDPPC, IdPO_1, 331, 825, 319, 972, 1812689, -387879, 1253918, -288066),
      BSpec(IdPO_1, IdUnknown, 1234567, 800, 330, 7654321, 0, 1000000, 212121, 0) }

BulkSi == [name |-> <<"S","i">>, sld |-> 2070000]
BulkD2O == [name |-> <<"D","2","O">>, sld |-> 6360000]
BulkH2O == [name |-> <<"H","2","O">>, sld |-> -560000]

ContrastOf(internal) ==
    <<Lyr(<<"S","i">>, 0, 2070000, 3)>> \o internal
        \o <<Lyr(<<"D","2","O">>, 0, 6360000, 3)>>

InitEmit ==
    /\ pc = "main_model" /\ err = ""
    /\ orso_data = <<>> /\ done = 0
    /\ \E internal \in SeqsUpTo(LayerPool, MaxLayers) :
          layers_all = <<ContrastOf(internal), SomeContrast>>
    /\ bulk_ins = <<BulkSi, BulkSi>>
    /\ bulk_outs = <<BulkD2O, BulkH2O>>
    /\ contrast_names = << <<"d","2","o">>, <<"h","2","o">> >>
    /\ bilayer_specs \in SeqsUpTo(BilayerPool, MaxBilayers)
    /\ bilayer_specs_raw =
          IF bilayer_specs = <<>> THEN NoRaw
          ELSE [is_none |-> FALSE,
                items |-> [k \in 1..Len(bilayer_specs) |->
                              [inner |-> bilayer_specs[k].inner,
                               outer |-> bilayer_specs[k].outer]]]
    /\ resolver_calls = 2 * Len(bilayer_specs)
    /\ HAS_MOLGROUPS = TRUE
    /\ lipids = Library(CHOOSE d \in CompleteLipids : TRUE,
                         CHOOSE d \in CompleteLipids : TRUE)
    /\ IdleT /\ IdleL /\ IdleE

NextEmit == MainEmitModel \/ MainEmitDriver \/ EvalModel

SpecEmit == InitEmit /\ [][NextEmit]_vars

\* the inputs of the two emitters, counted on the inputs themselves
NumInternal == Len(layers_all[1]) - 2
NumBilayers == Len(bilayer_specs)

\* the names the generated function reads from params, in order
ReadsOf(code) ==
    LET rd == SelectSeq(code, LAMBDA st : st.op = "read")
    IN  [k \in 1..Len(rd) |-> rd[k].dst]

DeclaredCount == Len(driver_code.params) + Len(driver_code.scalefactors)

Role(owner, k, role) == [owner |-> owner, k |-> k, role |-> role]

\* of a name the generated function unpacks
RoleOfVar(v) ==
    CASE v.n = "subRough"   -> Role("substrate", 0, "roughness")
      [] v.n = "layerThick" -> Role("layer", v.k, "thickness")
      [] v.n = "layerSLD"   -> Role("layer", v.k, "SLD")
      [] v.n = "layerRough" -> Role("layer", v.k, "roughness")
      [] v.n = "bilayerAPM" -> Role("bilayer", v.k, "APM")
      [] v.n = "bilayerHeadHydInner" -> Role("bilayer", v.k, "head-hydration-inner")
      [] v.n = "bilayerHeadHydOuter" -> Role("bilayer", v.k, "head-hydration-outer")
      [] v.n = "bilayerBilayerHydration" -> Role("bilayer", v.k, "bilayer-hydration")
      [] v.n = "bilayerRough" -> Role("bilayer", v.k, "roughness")
      [] OTHER -> Role("unknown", 0, "")

\* of the entry at position p of the driver's parameter group: what its
\* suffix says, owned by the layer or bilayer its name names
RoleOfEntry(e, p) ==
    LET internal == SubSeq(layers_all[1], 2, Len(layers_all[1]) - 1)
        layerK == IF \E i \in 1..Len(internal) :
                        3 * i - 2 <= p /\ p <= 3 * i
                            /\ e.name.base = strip(CollapseWs(internal[i].name))
                  THEN (p + 2) \div 3 ELSE 0
        bilayerK == IF \E j \in 1..Len(bilayer_specs) :
                          e.name.base = <<"B","i","l","a","y","e","r">> \o StrOfNat(j)
                    THEN CHOOSE j \in 1..Len(bilayer_specs) :
                          e.name.base = <<"B","i","l","a","y","e","r">> \o StrOfNat(j)
                    ELSE 0
    IN  CASE e.name.suffix = "thickness" -> Role("layer", layerK, "thickness")
          [] e.name.suffix = "SLD"       -> Role("layer", layerK, "SLD")
          [] e.name.suffix = "rough"     -> Role("layer", layerK, "roughness")
          [] e.name.suffix = "APM"       -> Role("bilayer", bilayerK, "APM")
          [] e.name.suffix = "HeadHyd Inner" ->
                Role("bilayer", bilayerK, "head-hydration-inner")
          [] e.name.suffix = "HeadHyd Outer" ->
                Role("bilayer", bilayerK, "head-hydration-outer")
          [] e.name.suffix = "BilayerHydration" ->
                Role("bilayer", bilayerK, "bilayer-hydration")
          [] e.name.suffix = "Rough"     -> Role("bilayer", bilayerK, "roughness")
          [] OTHER -> Role("unknown", 0, "")

ModelRoles == [k \in 1..Len(ReadsOf(model_code)) |-> RoleOfVar(ReadsOf(model_code)[k])]
DriverRoles ==
    [p \in 1..Len(driver_code.params) |-> RoleOfEntry(driver_code.params[p], p)]

\* the order of the claim, after the substrate roughness
LayoutRoles ==
    Flat([i \in 1..NumInternal |->
              <<Role("layer", i, "thickness"), Role("layer", i, "SLD"),
                Role("layer", i, "roughness")>>])
    \o Flat([j \in 1..NumBilayers |->
              <<Role("bilayer", j, "APM"),
                Role("bilayer", j, "head-hydration-inner"),
                Role("bilayer", j, "head-hydration-outer"),
                Role("bilayer", j, "bilayer-hydration"),
                Role("bilayer", j, "roughness")>>])

ConstOf(code, v) ==
    LET k == CHOOSE k \in 1..Len(code) : code[k].op = "const" /\ code[k].dst = v
    IN  code[k].val

\* the parameters of bilayer j in the evaluated vector
ParamAPM(j)   == run.params[1 + 3 * NumInternal + 5 * (j - 1) + 1]
ParamRough(j) == run.params[1 + 3 * NumInternal + 5 * (j - 1) + 5]

\* row s (1..4) of bilayer j in the returned stack
SubRow(j, s) == run.out[NumInternal + 4 * (j - 1) + s]

\* the volume constant behind sublayer s: head in, tail in, tail out, head out
SubVolName == <<"vHeadInner", "vTailInner", "vTailOuter", "vHeadOuter">>
SubVolSpec(bl) == <<bl.v_head_inner, bl.v_tail_inner, bl.v_tail_outer, bl.v_head_outer>>

\* C9: the returned stack has L + 4B rows: the L layers in order, then per
\* bilayer inner head, inner tail, outer tail, outer head; each sublayer is
\* as thick as its volume (as the function holds it: the spec's value, at
\* six significant digits) over the bilayer's APM, and all four have the
\* bilayer's one roughness parameter.
C9_StackShape ==
    run.evaluated =>
        /\ run.ok
        /\ Len(run.out) = NumInternal + 4 * NumBilayers
        /\ \A i \in 1..NumInternal :
              \A c \in 1..3 : FracEq(run.out[i][c], run.params[1 + 3 * (i - 1) + c])
        /\ \A j \in 1..NumBilayers : \A s \in 1..4 :
              LET vol == ConstOf(model_code, Var(SubVolName[s], j))
                  v0  == SubVolSpec(bilayer_specs[j])[s]
              IN  /\ SubRow(j, s)[1].n * ParamAPM(j).n
                        = vol * ParamAPM(j).d * SubRow(j, s)[1].d
                  /\ FracEq(SubRow(j, s)[3], ParamRough(j))
                  /\ v0 < 1000000 => vol = v0

\* C9 witness: a stack of two layers and two bilayers was returned, the
\* four sublayers of the second bilayer all of different thickness.
C9_Witness ==
    /\ run.evaluated /\ run.ok
    /\ NumInternal = 2 /\ NumBilayers = 2
    /\ Len(run.out) = 10
    /\ \A s, t \in 1..4 : s # t => ~FracEq(SubRow(2, s)[1], SubRow(2, t)[1])

\* the hydration parameter and the intrinsic-SLD constant of sublayer s
SubHyd == <<1, 3, 3, 2>>
SubSldName == <<"sldHeadInner", "sldTailInner", "sldTailOuter", "sldHeadOuter">>

\* C10: every bilayer sublayer has SLD h * bulkOut(contrast) + (1 - h) * s,
\* s the function's intrinsic SLD of the sublayer and h the inner head's
\* hydration for the inner head, the outer head's for the outer head and
\* the shared one for both tails; so s itself at h = 0 and the contrast's
\* bulk-out SLD at h = 1.
C10_HydrationMixing ==
    run.evaluated =>
        \A j \in 1..NumBilayers : \A s \in 1..4 :
            LET h    == run.hyd[SubHyd[s]]
                bulk == bulk_outs[run.contrast].sld
                sld0 == ConstOf(model_code, Var(SubSldName[s], j))
                eff  == SubRow(j, s)[2]
            IN  /\ eff.n * h.d = eff.d * (h.n * bulk + (h.d - h.n) * sld0)
                /\ h.n = 0 => eff.n = sld0 * eff.d
                /\ h.n = h.d => eff.n = bulk * eff.d

\* C10 witness: the second contrast evaluated with the inner head dry, the
\* outer head fully hydrated, the heads of different intrinsic SLD.
C10_Witness ==
    /\ run.evaluated /\ run.ok
    /\ run.contrast = 2
    /\ NumBilayers >= 1
    /\ run.hyd[1].n = 0 /\ run.hyd[2].n = run.hyd[2].d
    /\ bilayer_specs[1].sld_head_inner # bilayer_specs[1].sld_head_outer
    /\ FracEq(SubRow(1, 4)[2], Frac(bulk_outs[2].sld, 1))
    /\ ~FracEq(SubRow(1, 1)[2], Frac(bulk_outs[2].sld, 1))

(***************************************************************************)
(* The driver emitter on any bulk records: up to MaxContrasts contrasts,   *)
(* the bulk-out side drawn from media that share names, share SLDs to      *)
(* eight decimals, or already carry a suffix.                              *)
(***************************************************************************)
MaxContrasts == 3

Bulk(name, sld) == [name |-> name, sld |-> sld]

BulkPool ==
    { Bulk(<<"D","2","O">>, 6000000), Bulk(<<"D","2","O">>, 6004000),
      Bulk(<<"D","2","O">>, 6100000), Bulk(<<"H","2","O">>, -560000),
      Bulk(<<"D","2","O","_","2">>, 6000000) }

BulkAir == Bulk(<<"A","i","r">>, 0)

\* internal layers with positive, zero and negative nominal values
SpanLayers ==
    { Lyr(<<"S","i","O","2">>, 10, 3470000, 3),
      Lyr(<<"g","a","p">>, 0, 0, 0),
      Lyr(<<"T","i">>, 1234567, -1950000, 7) }

InitBulk ==
    /\ pc = "main_model" /\ err = ""
    /\ orso_data = <<>> /\ done = 0
    /\ bulk_outs \in SeqsUpTo(BulkPool, MaxContrasts) \ {<<>>}
    /\ bulk_ins \in {bulk_outs, [k \in 1..Len(bulk_outs) |-> BulkSi],
                     [k \in 1..Len(bulk_outs) |-> BulkAir]}
    /\ \E internal \in SpanLayers :
          layers_all = [k \in 1..Len(bulk_outs) |->
                           <<Lyr(bulk_ins[k].name, 0, bulk_ins[k].sld, 3),
                             internal,
                             Lyr(bulk_outs[k].name, 0, bulk_outs[k].sld, 3)>>]
    /\ contrast_names = [k \in 1..Len(bulk_outs) |-> <<"c">> \o StrOfNat(k)]
    /\ bilayer_specs_raw = NoRaw
    /\ bilayer_specs = <<>> /\ resolver_calls = 0
    /\ IdleLib /\ IdleT /\ IdleL /\ IdleE

NextBulk == MainEmitModel \/ MainEmitDriver

SpecBulk == InitBulk /\ [][NextBulk]_vars

\* the declarations of one side, in the order emitted
DeclsOf(fn) == SelectSeq(driver_code.bulks, LAMBDA d : d.fn = fn)
DeclNames(fn) == [k \in 1..Len(DeclsOf(fn)) |-> DeclsOf(fn)[k].name]

\* a record's key: its name and its SLD to the nearest 1e-8
NearestE8(sld) == ((sld + 5000) \div 10000) * 10000
KeyOf(b) == <<b.name, NearestE8(b.sld)>>

\* name carries a numeric suffix on base
IsSuffixed(name, base) ==
    \E n \in 2..(MaxContrasts + 2) : name = base \o <<"_">> \o StrOfNat(n)

\* one side: records, the function that declares them, the name each
\* contrast block was given
SideDeduplicated(recs, fn, used) ==
    /\ Len(DeclsOf(fn)) = Cardinality({KeyOf(recs[k]) : k \in 1..Len(recs)})
    /\ \A a, b \in 1..Len(DeclsOf(fn)) : a # b => DeclNames(fn)[a] # DeclNames(fn)[b]
    /\ \A k \in 1..Len(recs) :
          /\ \E a \in 1..Len(DeclsOf(fn)) : DeclNames(fn)[a] = used[k]
          /\ \A l \in 1..Len(recs) :
                (KeyOf(recs[k]) = KeyOf(recs[l])) <=> (used[k] = used[l])
          /\ (/\ \A l \in 1..(k - 1) : KeyOf(recs[l]) # KeyOf(recs[k])
              /\ \E l \in 1..(k - 1) : recs[l].name = recs[k].name)
                => IsSuffixed(used[k], recs[k].name)

\* C6: on each side one declaration per distinct (name, SLD to 8 decimals),
\* the declared names pairwise distinct, a name met again with another
\* rounded SLD (a new key, so a new declaration) declared with a numeric
\* suffix; D2O 6.0e-6, D2O 6.0e-6,
\* D2O 6.1e-6 gives two declarations, D2O and D2O_2.
C6_BulkDedup ==
    pc = "done" =>
        /\ SideDeduplicated(bulk_ins, "addBulkIn",
                            [k \in 1..Len(driver_code.blocks) |->
                                driver_code.blocks[k].BulkIn])
        /\ SideDeduplicated(bulk_outs, "addBulkOut",
                            [k \in 1..Len(driver_code.blocks) |->
                                driver_code.blocks[k].BulkOut])
        /\ Len(driver_code.blocks) = Len(bulk_outs)
        /\ bulk_outs = <<Bulk(<<"D","2","O">>, 6000000), Bulk(<<"D","2","O">>, 6000000),
                         Bulk(<<"D","2","O">>, 6100000)>>
              => DeclNames("addBulkOut") = << <<"D","2","O">>, <<"D","2","O","_","2">> >>

\* C6 witness: the claim's three records were declared as two.
C6_Witness ==
    /\ pc = "done"
    /\ bulk_outs = <<Bulk(<<"D","2","O">>, 6000000), Bulk(<<"D","2","O">>, 6000000),
                     Bulk(<<"D","2","O">>, 6100000)>>
    /\ Len(DeclsOf("addBulkOut")) = 2
    /\ driver_code.blocks[3].BulkOut = <<"D","2","O","_","2">>

\* C6 witness: a suffixed name taken already, the next suffix used; and two
\* SLDs that differ only past the eighth decimal declared once.
C6_WitnessTaken ==
    /\ pc = "done"
    /\ bulk_outs = <<Bulk(<<"D","2","O","_","2">>, 6000000), Bulk(<<"D","2","O">>, 6004000),
                     Bulk(<<"D","2","O">>, 6100000)>>
    /\ driver_code.blocks[3].BulkOut = <<"D","2","O","_","3">>

(***************************************************************************)
(* orsopy_extract: values that may be None, layer objects of the resolver  *)
(***************************************************************************)
Some(v) == [is_none |-> FALSE, v |-> v]
NoText == [is_none |-> TRUE, v |-> <<>>]
NoNum  == [is_none |-> TRUE, v |-> 0]

AlphaLower == <<"a","b","c","d","e","f","g","h","i","j","k","l","m",
                "n","o","p","q","r","s","t","u","v","w","x","y","z">>
AlphaUpper == <<"A","B","C","D","E","F","G","H","I","J","K","L","M",
                "N","O","P","Q","R","S","T","U","V","W","X","Y","Z">>

\* str.lower()
lower(t) ==
    [k \in 1..Len(t) |->
        IF \E a \in 1..26 : AlphaUpper[a] = t[k]
        THEN AlphaLower[CHOOSE a \in 1..26 : AlphaUpper[a] = t[k]]
        ELSE t[k]]

\* first position at which sub occurs in t, 0 when it does not
FindSub(t, sub) ==
    LET at == {k \in 1..(Len(t) - Len(sub) + 1) : SubSeq(t, k, k + Len(sub) - 1) = sub}
    IN  IF at = {} THEN 0 ELSE CHOOSE k \in at : \A l \in at : k <= l

\* sub in t
Contains(t, sub) == FindSub(t, sub) # 0

\* a material: its name, its formula, what get_sld() does
Material(name, formula, sld_raises, sld) ==
    [is_none |-> FALSE, name |-> name, formula |-> formula,
     sld_raises |-> sld_raises, sld |-> sld]
NoMaterial ==
    [is_none |-> TRUE, name |-> NoText, formula |-> NoText,
     sld_raises |-> FALSE, sld |-> 0]

\* a resolved layer; raises: a unit conversion of it fails
LayerObj(original_name, material, thickness, roughness, raises) ==
    [original_name |-> original_name, material |-> material,
     thickness |-> thickness, roughness |-> roughness, raises |-> raises]

\* lines 13-20
safe_get_sld(material) ==
    IF material.is_none \/ material.sld_raises THEN 0 ELSE material.sld

\* line 23
KNOWN_BULKS ==
    << <<"D","2","O">>, <<"H","2","O">>, <<"A","u","M","W">>, <<"S","i","M","W">>, <<"S","M","W">>, <<"S","i">>, <<"A","i","r">> >>

\* the first known bulk whose lower-cased name occurs in lower-cased text
FirstKnown(text) ==
    LET hits == {k \in 1..Len(KNOWN_BULKS) : Contains(lower(text), lower(KNOWN_BULKS[k]))}
    IN  IF hits = {} THEN NoText
        ELSE Some(KNOWN_BULKS[CHOOSE k \in hits : \A l \in hits : k <= l])

\* a fault: the original name looked at before the material's name
infer_bulk_name_original_first(layer, fallback) ==
    LET name == layer.material.name
        orig == layer.original_name
    IN  IF ~orig.is_none /\ strip(orig.v) # <<>> /\ ~FirstKnown(orig.v).is_none
        THEN FirstKnown(orig.v).v
        ELSE IF ~name.is_none /\ strip(name.v) # <<>> /\ ~FirstKnown(name.v).is_none
        THEN FirstKnown(name.v).v
        ELSE fallback

\* lines 26-53
infer_bulk_name_from_layer(layer, fallback) ==
    LET name == layer.material.name
        orig == layer.original_name
        formula == layer.material.formula
        f == lower(formula.v)
    IN  IF ~name.is_none /\ strip(name.v) # <<>> /\ ~FirstKnown(name.v).is_none
        THEN FirstKnown(name.v).v
        ELSE IF ~orig.is_none /\ strip(orig.v) # <<>> /\ ~FirstKnown(orig.v).is_none
        THEN FirstKnown(orig.v).v
        ELSE IF ~formula.is_none /\ Contains(f, <<"d","2","o">>) THEN <<"D","2","O">>
        ELSE IF ~formula.is_none /\ Contains(f, <<"h","2","o">>) THEN <<"H","2","O">>
        ELSE fallback

\* x or y or "Layer": the first that is neither None nor empty
FirstTruthy(a, b) ==
    IF ~a.is_none /\ a.v # <<>> THEN a.v
    ELSE IF ~b.is_none /\ b.v # <<>> THEN b.v
    ELSE <<"L","a","y","e","r">>

\* lines 56-84: the layer record, or raised
extract_layer(li) ==
    [raised |-> li.raises,
     layer  |-> Lyr(strip(FirstTruthy(li.original_name, li.material.name)),
                    IF li.thickness.is_none THEN 0 ELSE li.thickness.v,
                    safe_get_sld(li.material),
                    IF li.roughness.is_none THEN 3 ELSE li.roughness.v)]

\* lines 135-140: the layers that did not raise
RECURSIVE CollectLayers(_)
CollectLayers(resolved) ==
    IF resolved = <<>> THEN <<>>
    ELSE LET e == extract_layer(Head(resolved))
         IN  (IF e.raised THEN <<>> ELSE <<e.layer>>) \o CollectLayers(Tail(resolved))

\* line 111: re.sub(r"\s*th=.*$", "", name).strip()
CleanName(name) ==
    LET k == FindSub(name, <<"t","h","=">>)
    IN  strip(IF k = 0 THEN name ELSE SubSeq(name, 1, k - 1))

\* line 113: replace("_", r"\_")
RECURSIVE EscapeUnderscores(_)
EscapeUnderscores(t) ==
    IF t = <<>> THEN <<>>
    ELSE (IF Head(t) = "_" THEN <<"\\", "_">> ELSE <<Head(t)>>)
            \o EscapeUnderscores(Tail(t))

(***************************************************************************)
(* The external resolver, model.resolve_to_layers(): one layer object per  *)
(* non-empty token of model.stack as it stands when the call is made.      *)
(***************************************************************************)
TokSi    == <<"S","i">>
TokSiO2  == <<"S","i","O","2"," ","1","0">>
TokGold  == <<"A","u"," ","5","0">>
TokThiol == <<"t","h","i","o","l"," ","8">>
TokD2O   == <<"D","2","O">>
TokH2O   == <<"H","2","O">>
TokHeavy == <<"h","w">>
TokBad   == <<"b","a","d"," ","1">>
TokVoid  == <<"v","o","i","d">>

ResolveToken(tok) ==
    CASE tok = TokSi ->
            LayerObj(NoText, Material(Some(<<"S","i">>), NoText, FALSE, 2070000),
                     NoNum, NoNum, FALSE)
      [] tok = TokSiO2 ->
            LayerObj(Some(<<" ","S","i","O","2"," ">>), Material(Some(<<"s","i","l","i","c","a">>), NoText, FALSE, 3470000),
                     Some(100), Some(4), FALSE)
      [] tok = TokGold ->
            LayerObj(Some(<<>>), Material(Some(<<"A","u">>), NoText, FALSE, 4662000),
                     Some(500), NoNum, FALSE)
      [] tok = TokThiol ->
            LayerObj(NoText, Material(NoText, NoText, TRUE, 0), Some(80), Some(5), FALSE)
      [] tok = TokD2O ->
            LayerObj(Some(<<"D","2","O">>), Material(Some(<<"d","2","o">>), NoText, FALSE, 6360000),
                     NoNum, NoNum, FALSE)
      [] tok = TokH2O ->
            LayerObj(Some(<<"w","a","t","e","r"," ","H","2","O">>), Material(Some(<<"w","a","t","e","r">>), NoText, FALSE, -560000),
                     NoNum, NoNum, FALSE)
      [] tok = TokHeavy ->
            LayerObj(NoText, Material(Some(<<"h","w">>), Some(<<"D","2","O">>), FALSE, 6360000),
                     NoNum, NoNum, FALSE)
      [] tok = TokBad ->
            LayerObj(NoText, Material(Some(<<"b","a","d">>), NoText, FALSE, 1000000),
                     Some(10), NoNum, TRUE)
      [] OTHER ->
            LayerObj(NoText, NoMaterial, NoNum, NoNum, FALSE)

resolve_to_layers(stack) ==
    LET tokens == SelectSeq(StripAll(split(stack, "|")), LAMBDA t : t # <<>>)
    IN  [k \in 1..Len(tokens) |-> ResolveToken(tokens[k])]

\* a fault: the resolver given the stack as it was written
ResolverInput_unrewritten(written, rewritten) == written

\* lines 120-125: model.stack is rewritten before model.resolve_to_layers()
ResolverInput(written, rewritten) == rewritten

\* a fault: every contrast with bilayer tokens redefines the set
FirstBilayers_last_wins(raw, bilayers_here) ==
    IF bilayers_here # <<>>
    THEN [is_none |-> FALSE, items |-> bilayers_here]
    ELSE raw

\* lines 121-122: if bilayers_here and bilayer_specs_raw is None
FirstBilayers(raw, bilayers_here) ==
    IF bilayers_here # <<>> /\ raw.is_none
    THEN [is_none |-> FALSE, items |-> bilayers_here]
    ELSE raw

\* a fault: a stack of one layer kept
Skipped_below_one(ds, resolved_layers) ==
    ds.resolve_raises \/ Len(resolved_layers) < 1

\* lines 124-132: resolve_to_layers() raised, or fewer than two layers
Skipped(ds, resolved_layers) ==
    ds.resolve_raises \/ Len(resolved_layers) < 2

\* line 108: getattr(sample, "name", f"Contrast_{i}")
SampleName(ds, i) ==
    IF ds.name.is_none
    THEN <<"C","o","n","t","r","a","s","t","_">> \o StrOfNat(i)
    ELSE ds.name.v

\* lines 105-165: one iteration of the loop over the datasets
ProcessDataset ==
    /\ pc = "loop"
    /\ done < Len(orso_data)
    /\ LET i  == done + 1
           ds == orso_data[i]
           contrast_label == CleanName(SampleName(ds, i))
           ex == extract_bilayers_from_model(ds.stack)
           resolved_layers == resolve_to_layers(ResolverInput(ds.stack, ex.stack))
           contrast_layers == CollectLayers(resolved_layers)
           bulk_in_layer  == resolved_layers[1]
           bulk_out_layer == resolved_layers[Len(resolved_layers)]
       IN  /\ contrast_names' = Append(contrast_names, EscapeUnderscores(contrast_label))
           /\ IF ~ds.has_model
              THEN UNCHANGED <<orso_data, bilayer_specs_raw, layers_all, bulk_ins, bulk_outs>>
              ELSE /\ orso_data' = [orso_data EXCEPT ![i].stack = ex.stack]
                   /\ bilayer_specs_raw' = FirstBilayers(bilayer_specs_raw, ex.bilayers)
                   /\ IF Skipped(ds, resolved_layers)
                      THEN UNCHANGED <<layers_all, bulk_ins, bulk_outs>>
                      ELSE /\ layers_all' = Append(layers_all, contrast_layers)
                           /\ bulk_ins' = Append(bulk_ins,
                                 [name |-> infer_bulk_name_from_layer(bulk_in_layer,
                                               <<"S","u","b","s","t","r","a","t","e">>),
                                  sld |-> safe_get_sld(bulk_in_layer.material)])
                           /\ bulk_outs' = Append(bulk_outs,
                                 [name |-> infer_bulk_name_from_layer(bulk_out_layer,
                                               <<"A","i","r">>),
                                  sld |-> safe_get_sld(bulk_out_layer.material)])
           /\ done' = i
           /\ pc' = IF i = Len(orso_data) THEN "build" ELSE "loop"
    /\ UNCHANGED <<err, varsB, varsLib, varsT, varsL, varsE>>

(***************************************************************************)
(* The whole run: process_orso_file on up to MaxDatasets datasets, then    *)
(* main's two emitters, then the generated function evaluated once.        *)
(***************************************************************************)
MaxDatasets == 2

Dataset(name, has_model, stack, resolve_raises) ==
    [name |-> name, has_model |-> has_model, stack |-> stack,
     resolve_raises |-> resolve_raises]

\* no bilayer token, three internal layers
DsPlain ==
    Dataset(Some(<<"d","2","o","_","r","u","n"," ","t","h","=","1","2">>), TRUE,
            join(StackSep, <<TokSi, TokSiO2, TokGold, TokThiol, TokD2O>>), FALSE)
\* one bilayer token, one internal layer
DsBilayer ==
    Dataset(Some(<<"h","2","o"," ","r","u","n">>), TRUE,
            join(StackSep, <<TokSi, TokSiO2, BilayerText(<<>>, IdDPPC, IdDPPC), TokH2O>>),
            FALSE)
DsNoModel == Dataset(NoText, FALSE, <<>>, FALSE)
DsRaises ==
    Dataset(Some(<<"r","1">>), TRUE,
            join(<<"|">>, <<TokSi, BilayerText(<<" ">>, IdPO_1, IdDPPC), TokD2O>>), TRUE)
DsShort ==
    Dataset(Some(<<"d","e","p","t","h","=","3">>), TRUE,
            join(<<"|">>, <<BilayerText(<<>>, IdDPPC, IdPO_1), TokSi>>), FALSE)
DsBad ==
    Dataset(Some(<<"b","a","d">>), TRUE, join(StackSep, <<TokSi, TokBad, TokHeavy>>), FALSE)
DsVoid ==
    Dataset(Some(<<"v">>), TRUE, join(StackSep, <<TokVoid, TokSiO2, TokVoid>>), FALSE)

\* the first layer of three cannot be normalised
DsBadBulk ==
    Dataset(Some(<<"b","b">>), TRUE, join(StackSep, <<TokBad, TokSiO2, TokD2O>>), FALSE)

\* two bilayer tokens, of different lipids, and one internal layer
DsTwo ==
    Dataset(Some(<<"t","w","o">>), TRUE,
            join(StackSep, <<TokSi, BilayerText(<<>>, IdPO_1, IdDPPC), TokSiO2,
                             BilayerText(<<" ">>, IdDPPC, IdUnknown), TokD2O>>), FALSE)

DatasetPool ==
    {DsPlain, DsBilayer, DsNoModel, DsRaises, DsShort, DsBad, DsVoid, DsBadBulk,
     DsTwo}

Init ==
    /\ orso_data \in SeqsUpTo(DatasetPool, MaxDatasets)
    /\ pc = "loop" /\ err = "" /\ done = 0
    /\ layers_all = <<>> /\ bulk_ins = <<>> /\ bulk_outs = <<>>
    /\ contrast_names = <<>> /\ bilayer_specs_raw = NoRaw
    /\ bilayer_specs = <<>> /\ resolver_calls = 0
    /\ HAS_MOLGROUPS \in BOOLEAN
    /\ lipids = IF HAS_MOLGROUPS
                THEN Library(Lipid(HeadOf(<<CompA, CompB>>), AttrNum(319),
                                   TailsOf(AttrNum(825), AttrArr(<<-36, 4>>))),
                             Lipid(HeadOf(<<CompB>>), AttrNone, TailsRaise))
                ELSE <<>>
    /\ IdleT /\ IdleL /\ IdleE

\* line 105 with nothing left to iterate, line 167 next
LoopEnd ==
    /\ pc = "loop"
    /\ done = Len(orso_data)
    /\ pc' = "build"
    /\ UNCHANGED <<err, varsX, varsB, varsLib, varsT, varsL, varsE>>

Next ==
    \/ ProcessDataset
    \/ LoopEnd
    \/ BuildBilayerSpecs
    \/ MainEmitModel
    \/ MainEmitDriver
    \/ EvalModel

Spec == Init /\ [][Next]_vars

\* the two-contrast input of the scenario, in its two orders
SampleNames == [k \in 1..Len(orso_data) |-> orso_data[k].name]
PlainFirst == SampleNames = <<DsPlain.name, DsBilayer.name>>
BilayerFirst == SampleNames = <<DsBilayer.name, DsPlain.name>>

\* two contrast blocks, each with a background parameter of its own
TwoContrastsWired ==
    /\ Len(driver_code.blocks) = 2
    /\ driver_code.blocks[1].background.backs # driver_code.blocks[2].background.backs
    /\ \A k \in 1..2 : driver_code.blocks[k].i = k

C3_WitnessBilayerFirst ==
    /\ pc = "done" /\ BilayerFirst
    /\ Len(layers_all[1]) = 3 /\ Len(layers_all[2]) = 5
    /\ Len(ReadsOf(model_code)) = 9

(***************************************************************************)
(* Skipped contrasts and the fatal errors of process_orso_file             *)
(***************************************************************************)
ErrNoModels == "RuntimeError: No valid models found in the ORSO file."
ErrNoMolgroups == "RuntimeError: molgroups.lipids is not installed."

\* the layers the resolver gives for dataset ds once its bilayer tokens are
\* out of the stack
ResolvedOf(ds) == resolve_to_layers(extract_bilayers_from_model(ds.stack).stack)

\* dataset ds has a model, resolves, and to two layers or more
Usable(ds) == ds.has_model /\ ~ds.resolve_raises /\ Len(ResolvedOf(ds)) >= 2

\* the datasets among the first n that are usable, in order
UsableUpTo(n) == SelectSeq(SubSeq(orso_data, 1, n), Usable)

\* process_orso_file has returned or raised
Returned == pc \in {"main_model", "main_driver", "done"} \/ (pc = "failed" /\ err = "IndexError")
Raised == pc = "failed" /\ err # "IndexError"

\* C11 as stated: skipped contrasts add nothing to the three lists and do
\* not abort, and process_orso_file raises if and only if no contrast
\* contributed.
C11_FatalIffNothing ==
    /\ Len(layers_all) = Len(UsableUpTo(done))
    /\ Len(bulk_ins) = Len(layers_all) /\ Len(bulk_outs) = Len(layers_all)
    /\ (Returned \/ Raised) => (Raised <=> layers_all = <<>>)

\* C11 amended: a contrast with no model, whose resolution raises, or of
\* fewer than two layers adds nothing to the three lists and does not stop
\* the loop; "No valid models" is raised if and only if no contrast
\* contributed; when some contrast did contribute, process_orso_file still
\* raises in one case only: bilayer tokens were found and molgroups is not
\* installed.
C11_SkipsAndFatal ==
    /\ Len(layers_all) = Len(UsableUpTo(done))
    /\ Len(bulk_ins) = Len(layers_all) /\ Len(bulk_outs) = Len(layers_all)
    /\ pc = "loop" => err = ""
    /\ (Returned \/ Raised) =>
          /\ done = Len(orso_data)
          /\ (err = ErrNoModels) <=> (layers_all = <<>>)
          /\ (Raised /\ layers_all # <<>>) <=>
                (/\ layers_all # <<>>
                 /\ ~bilayer_specs_raw.is_none
                 /\ ~HAS_MOLGROUPS)
          /\ Raised => err \in {ErrNoModels, ErrNoMolgroups}

\* C11 witness: of two datasets the first was skipped (its resolution
\* raised) and the run went on to return the second one's layers.
C11_Witness ==
    /\ Returned
    /\ Len(orso_data) = 2
    /\ orso_data[1].resolve_raises
    /\ Len(layers_all) = 1 /\ Len(bulk_ins) = 1 /\ Len(bulk_outs) = 1

\* C11 witness: every dataset was skipped and the run raised.
C11_WitnessFatal ==
    /\ Raised /\ err = ErrNoModels
    /\ Len(orso_data) = 2
    /\ ~orso_data[1].has_model
    /\ orso_data[2].has_model /\ Len(ResolvedOf(orso_data[2])) = 1

(***************************************************************************)
(* Layers whose normalisation raises                                       *)
(***************************************************************************)
\* the dataset behind the k-th recorded contrast
SourceOf(k) == UsableUpTo(done)[k]

\* C12: a per-contrast layer list is never recorded with a layer left out:
\* each has as many records as its contrast has resolved layers, its first
\* the bulk-in layer and its last the bulk-out layer.
C12_NoLayerLeftOut ==
    \A k \in 1..Len(layers_all) :
        LET resolved == ResolvedOf(SourceOf(k))
        IN  /\ Len(layers_all[k]) = Len(resolved)
            /\ layers_all[k][1] = extract_layer(resolved[1]).layer
            /\ layers_all[k][Len(resolved)] = extract_layer(resolved[Len(resolved)]).layer

\* C12 refuted: three layers resolved, the first (the bulk-in) raised, and a
\* list of two was recorded, so the one internal layer stands where the
\* bulk-in is expected and the emitters are given no internal layer.
C12_Witness ==
    /\ pc = "done"
    /\ Len(layers_all) >= 1
    /\ Len(ResolvedOf(SourceOf(1))) = 3
    /\ ResolvedOf(SourceOf(1))[1].raises
    /\ Len(layers_all[1]) = 2
    /\ layers_all[1][1].sld # bulk_ins[1].sld
    /\ Len(driver_code.params) = 5 * Len(bilayer_specs)

(***************************************************************************)
(* The bilayer set of the run                                              *)
(***************************************************************************)
BTok(inner, outer) == [inner |-> inner, outer |-> outer]

\* the bilayer tokens each dataset was written with, in the order written
WrittenTokens(ds) ==
    CASE ds.name = DsBilayer.name -> <<BTok(IdDPPC, IdDPPC)>>
      [] ds.name = DsRaises.name  -> <<BTok(IdPO_1, IdDPPC)>>
      [] ds.name = DsShort.name   -> <<BTok(IdDPPC, IdPO_1)>>
      [] ds.name = DsTwo.name     -> <<BTok(IdPO_1, IdDPPC), BTok(IdDPPC, IdUnknown)>>
      [] OTHER -> <<>>

\* the datasets among the first n with a model and a bilayer token
WithTokens(n) == {k \in 1..n : orso_data[k].has_model /\ WrittenTokens(orso_data[k]) # <<>>}
FirstWithTokens(n) == CHOOSE k \in WithTokens(n) : \A l \in WithTokens(n) : k <= l

\* C13: the bilayer set is the token list of the first contrast, in dataset
\* order, whose stack has a bilayer token; later contrasts lose their tokens
\* from their stacks and leave the set alone; the returned specs are one per
\* token of that contrast, in token order.
C13_FirstContrastDefines ==
    /\ bilayer_specs_raw =
          IF WithTokens(done) = {} THEN NoRaw
          ELSE [is_none |-> FALSE,
                items |-> WrittenTokens(orso_data[FirstWithTokens(done)])]
    /\ \A k \in 1..done :
          orso_data[k].has_model =>
              extract_bilayers_from_model(orso_data[k].stack).bilayers = <<>>
    /\ Returned =>
          LET toks == IF WithTokens(done) = {} THEN <<>>
                      ELSE WrittenTokens(orso_data[FirstWithTokens(done)])
          IN  /\ Len(bilayer_specs) = Len(toks)
              /\ \A j \in 1..Len(toks) :
                    /\ bilayer_specs[j].inner = toks[j].inner
                    /\ bilayer_specs[j].outer = toks[j].outer
                    /\ bilayer_specs[j].v_head_inner =
                          get_lipid_constants(toks[j].inner).head_vol
                    /\ bilayer_specs[j].v_tail_outer =
                          get_lipid_constants(toks[j].outer).tail_vol

\* C13 witness: two contrasts with different bilayer tokens, the first with
\* two of them; the specs returned are the first one's two, in order.
C13_Witness ==
    /\ pc = "done"
    /\ SampleNames = <<DsTwo.name, DsBilayer.name>>
    /\ Len(bilayer_specs) = 2
    /\ bilayer_specs[1].inner = IdPO_1 /\ bilayer_specs[2].outer = IdUnknown

\* C13 witness: the first contrast with tokens was itself skipped (its
\* resolution raised) and still defined the set.
C13_WitnessSkipped ==
    /\ pc = "main_model"
    /\ SampleNames = <<DsRaises.name, DsTwo.name>>
    /\ Len(layers_all) = 1
    /\ Len(bilayer_specs) = 1 /\ bilayer_specs[1].inner = IdPO_1

(***************************************************************************)
(* The driver on what process_orso_file returns                            *)
(***************************************************************************)
\* C14: on the outputs of process_orso_file, skipped contrasts included,
\* the driver completes with one contrast block per display name, block i
\* named by display name i and referencing the declared names of the bulk
\* records of the dataset that display name came from.
C14_BlocksAligned ==
    /\ ~(pc = "failed" /\ err = "IndexError")
    /\ pc = "done" =>
          /\ Len(driver_code.blocks) = Len(contrast_names)
          /\ Len(contrast_names) = Len(orso_data)
          /\ \A i \in 1..Len(contrast_names) :
                /\ driver_code.blocks[i].name = SanitizeId(contrast_names[i])
                /\ Usable(orso_data[i])
                /\ bulk_ins[i].sld = safe_get_sld(ResolvedOf(orso_data[i])[1].material)
                /\ bulk_outs[i].sld =
                      safe_get_sld(ResolvedOf(orso_data[i])
                                       [Len(ResolvedOf(orso_data[i]))].material)
          /\ SideDeduplicated(bulk_ins, "addBulkIn",
                              [k \in 1..Len(driver_code.blocks) |->
                                  driver_code.blocks[k].BulkIn])
          /\ SideDeduplicated(bulk_outs, "addBulkOut",
                              [k \in 1..Len(driver_code.blocks) |->
                                  driver_code.blocks[k].BulkOut])

\* C14 refuted: the first of two datasets had no model; two display names
\* and one bulk record reached the driver, which raised IndexError on the
\* second contrast block, and no driver was written.
C14_Witness ==
    /\ pc = "failed" /\ err = "IndexError"
    /\ Len(orso_data) = 2
    /\ ~orso_data[1].has_model /\ Usable(orso_data[2])
    /\ Len(contrast_names) = 2 /\ Len(bulk_ins) = 1 /\ Len(bulk_outs) = 1
    /\ driver_code = NoDriver

\* without a skipped contrast the driver completes and the blocks line up
C14_HoldsWithoutSkips ==
    (\A k \in 1..Len(orso_data) : Usable(orso_data[k])) =>
        /\ ~(pc = "failed" /\ err = "IndexError")
        /\ pc = "done" => Len(driver_code.blocks) = Len(orso_data)

(***************************************************************************)
(* The fallback chain of get_lipid_constants, stated on the lipid object   *)
(***************************************************************************)
\* the value of an attribute read with a 0.0 default: a number or not
NumOr0(attr) == IF attr.kind = "absent" THEN 0 ELSE attr.v
IsNumOrAbsent(attr) == attr.kind \in {"num", "absent"}

\* the headgroup can be read and its cell volumes summed
HeadSummable(obj) ==
    /\ obj.headgroup.kind = "ok"
    /\ \A k \in 1..Len(obj.headgroup.components) :
          IsNumOrAbsent(obj.headgroup.components[k].cell_volume)

\* the sum of the components' cell volumes, 0 when it cannot be formed
HeadVolumeSum(obj) ==
    IF HeadSummable(obj)
    THEN SumSeq([k \in 1..Len(obj.headgroup.components) |->
                    NumOr0(obj.headgroup.components[k].cell_volume)])
    ELSE 0

\* the summed nSL of the headgroup, 0 when the headgroup could not be
\* summed or some nSL is not a number
HeadNslSum(obj) ==
    IF /\ HeadSummable(obj)
       /\ \A k \in 1..Len(obj.headgroup.components) :
             IsNumOrAbsent(obj.headgroup.components[k].nSLs)
    THEN SumSeq([k \in 1..Len(obj.headgroup.components) |->
                    NumOr0(obj.headgroup.components[k].nSLs)])
    ELSE 0

TailVolumeOf(obj) ==
    IF obj.tails.kind = "ok" /\ obj.tails.cell_volume.kind = "num"
    THEN obj.tails.cell_volume.v ELSE 0

TailNslSum(obj) ==
    IF obj.tails.kind # "ok" THEN 0
    ELSE CASE obj.tails.nSLs.kind = "num"   -> obj.tails.nSLs.v
           [] obj.tails.nSLs.kind = "array" -> SumSeq(obj.tails.nSLs.a)
           [] OTHER -> 0

\* sld is nsl * 1e-5 / vol to the nearest unit (1e-12), 0 for nsl = 0
IsSldOf(sld, nsl, vol) ==
    IF nsl = 0 THEN sld = 0
    ELSE /\ 2 * (sld * vol - nsl * 10000000) <= vol
         /\ 2 * (nsl * 10000000 - sld * vol) <= vol

\* the object the name resolves to
ResolvedLipid == IF lipid_name \in DOMAIN lipids THEN lipids[lipid_name] ELSE lipids[IdDPPC]

\* C15: with the property source present both volumes are strictly
\* positive: the head volume is the sum of the components' cell volumes if
\* positive, else the headgroup_volume attribute if positive, else 330; the
\* tail volume is the tail group's cell volume if positive, else 800; each
\* SLD is nSL * 1e-5 / volume for a nonzero summed nSL and 0 otherwise (the
\* nSL counting as 0 when the group could not be read).
C15_VolumeChain ==
    (pcL = "returned" /\ HAS_MOLGROUPS) =>
        LET obj == ResolvedLipid
            hgv == IF obj.headgroup_volume.kind = "num" THEN obj.headgroup_volume.v ELSE 0
        IN  /\ consts.head_vol > 0 /\ consts.tail_vol > 0
            /\ consts.head_vol =
                  IF HeadVolumeSum(obj) > 0 THEN HeadVolumeSum(obj)
                  ELSE IF hgv > 0 THEN hgv ELSE 330
            /\ consts.tail_vol =
                  IF TailVolumeOf(obj) > 0 THEN TailVolumeOf(obj) ELSE 800
            /\ IsSldOf(consts.head_sld, HeadNslSum(obj), consts.head_vol)
            /\ IsSldOf(consts.tail_sld, TailNslSum(obj), consts.tail_vol)

\* C15 witness: the components sum to volume 0 with nSL 7, the attribute is
\* 319: volume 319 and a positive head SLD; the tails raise: 800 and 0.
C15_Witness ==
    /\ pcL = "returned" /\ HAS_MOLGROUPS /\ lipid_name = IdPO_1
    /\ HeadSummable(ResolvedLipid) /\ HeadVolumeSum(ResolvedLipid) = 0
    /\ HeadNslSum(ResolvedLipid) = 7
    /\ consts.head_vol = 319 /\ consts.head_sld > 0
    /\ ResolvedLipid.tails.kind = "raises"
    /\ consts.tail_vol = 800 /\ consts.tail_sld = 0

\* C15 witness: nothing usable for the head, a negative attribute: 330.
C15_WitnessDefault ==
    /\ pcL = "returned" /\ HAS_MOLGROUPS /\ lipid_name = IdPO_1
    /\ ~HeadSummable(ResolvedLipid)
    /\ ResolvedLipid.headgroup_volume = AttrNum(-5)
    /\ consts.head_vol = 330 /\ consts.head_sld = 0

(***************************************************************************)
(* The bounds of the driver's layer and bulk declarations                  *)
(***************************************************************************)
\* a <= b and a < b for fractions of positive denominator
FracLe(a, b) == IF a.d = b.d THEN a.n <= b.n ELSE a.n * b.d <= b.n * a.d
FracLt(a, b) == IF a.d = b.d THEN a.n < b.n ELSE a.n * b.d < b.n * a.d

\* min, value and max of a declaration are the bounds of nominal value v
\* at span pct percent, tiny being 1e-6 in v's unit
BoundsOf(decl, v, pct, tiny) ==
    /\ FracLt(decl.min, decl.max)
    /\ FracLe(decl.min, decl.val) /\ FracLe(decl.val, decl.max)
    /\ IF v = 0
       THEN /\ decl.min = Frac(-tiny.n, tiny.d) /\ decl.max = tiny
            /\ decl.val.n = 0
       ELSE /\ decl.val = Frac(Fmt6g(v), 1)
            /\ IF v > 0
               THEN /\ decl.min = Frac(Fmt6g(v * (100 - pct)), 100)
                    /\ decl.max = Frac(Fmt6g(v * (100 + pct)), 100)
               ELSE /\ decl.min = Frac(Fmt6g(v * (100 + pct)), 100)
                    /\ decl.max = Frac(Fmt6g(v * (100 - pct)), 100)

\* the records behind the bulk declarations of one side, in the order declared
RECURSIVE FirstOfKeys(_, _)
FirstOfKeys(recs, seen) ==
    IF recs = <<>> THEN <<>>
    ELSE IF KeyOf(Head(recs)) \in seen THEN FirstOfKeys(Tail(recs), seen)
    ELSE <<Head(recs)>> \o FirstOfKeys(Tail(recs), seen \cup {KeyOf(Head(recs))})

BulkBounds(recs, fn) ==
    LET firsts == FirstOfKeys(recs, {})
    IN  /\ Len(DeclsOf(fn)) = Len(firsts)
        /\ \A k \in 1..Len(firsts) :
              BoundsOf(DeclsOf(fn)[k], firsts[k].sld, 2, TinySld)

\* C16: for positive, negative and zero nominal values and the spans 0.3,
\* 0.2, 0.5 and 0.02, every layer and bulk declaration of the driver has
\* min < max and min <= value <= max: the window (-1e-6, 0, 1e-6) for a
\* zero value, else v*(1-frac) and v*(1+frac), the smaller as min.
C16_SpanOrdered ==
    pc = "done" =>
        LET L == layers_all[1][2]
        IN  /\ Len(driver_code.params) = 3
            /\ BoundsOf(driver_code.params[1], L.thickness, 30, TinyLen)
            /\ BoundsOf(driver_code.params[2], L.sld, 20, TinySld)
            /\ BoundsOf(driver_code.params[3], L.roughness, 50, TinyLen)
            /\ BulkBounds(bulk_ins, "addBulkIn")
            /\ BulkBounds(bulk_outs, "addBulkOut")

\* C16 witness: a layer of negative SLD between a bulk of zero SLD and one
\* of negative SLD; the SLD's min is the more negative bound.
C16_Witness ==
    /\ pc = "done"
    /\ layers_all[1][2].sld < 0
    /\ bulk_ins[1].sld = 0 /\ bulk_outs[1].sld < 0
    /\ driver_code.params[2].min.n < driver_code.params[2].val.n * 100
    /\ driver_code.params[2].min.n = Fmt6g(120 * layers_all[1][2].sld)

\* C16 witness: a layer whose three nominal values are zero.
C16_WitnessZero ==
    /\ pc = "done"
    /\ layers_all[1][2].thickness = 0 /\ layers_all[1][2].sld = 0
    /\ driver_code.params[1].min = Frac(-1, 1000000)
    /\ driver_code.params[2].max = Frac(1000000, 1)

====
